---- MODULE Spec2Model ----
(***************************************************************************)
(* State-machine model of chemvista/tree_structure.py: the TreeNode scene  *)
(* tree (parent references, insertion-ordered children dictionaries, path  *)
(* caches, visibility flags, per-node signals objects) and its mutating    *)
(* operations add_child, remove_child, move and reorder_child.             *)
(***************************************************************************)
EXTENDS Integers, Sequences, FiniteSets, TLC

\* ------------------------------------------------------------------ bounds
NumNodes == 3
MaxDepth == 2
MaxBrokenCalls == 1

\* --------------------------------------------------------------- constants
Nil == 0
NoPos == -1
NoPath == <<"?">>
Err == -2

Nodes == 1..NumNodes
Positions == {NoPos} \cup (0..NumNodes)
Names == {"a", "b"}

\* the node the callers hold as the tree's root and call move on
Root == 1

\* which nodes were given the shared TreeSignals object: every node, only the
\* root, or none (the constructor's default)
SignalConfigs ==
    { [n \in Nodes |-> TRUE], [n \in Nodes |-> n = Root], [n \in Nodes |-> FALSE] }

\* node_type of the nodes of a scene: the manager's root, a molecule, scalar
\* fields
SceneTypes ==
    [n \in Nodes |-> IF n = Root THEN "root" ELSE IF n = Root + 1 THEN "molecule"
                      ELSE "scalar_field"]

\* render settings: a value held by an object; the nodes of the domain classes
\* carry a render_settings attribute, the plain root carries none
NoSettings == [val |-> "none", obj |-> "none"]
SettingsValues == {"default", "custom"}
SettingsObjects == {"o1", "o2"}
AllSettings == [val : SettingsValues, obj : SettingsObjects]
SceneSettings ==
    [n \in Nodes |-> IF SceneTypes[n] = "root" THEN NoSettings
                     ELSE [val |-> "default", obj |-> "o1"]]

\* the scalar_fields dictionary of each molecule payload, in insertion order:
\* entries of field name and field payload (the payload of node n is n)
NoFields == [n \in Nodes |-> << >>]

\* the frame list of each trajectory payload: the molecule payloads in order
NoFrames == [n \in Nodes |-> << >>]

\* the SceneManager that owns the tree: its _tree_signals and the ids of the
\* nodes it has constructed; NoManager when the tree has none
NoSignals == "none"
SignalObjects == {"s1", "s2"}
NoManager == [signals |-> NoSignals, made |-> {}]
\* no ObjectTreeWidget is attached
NoWidget == [pc |-> "none"]

VARIABLES parent, children, name, pathCache, visible, signals, nodeType, settings,
          fields, frames, manager, widget, last, stack, broken

vars == <<parent, children, name, pathCache, visible, signals, nodeType, settings,
          fields, frames, manager, widget, last, stack, broken>>

\* ------------------------------------------------------- sequence helpers
KeyIn(seq, x) == \E i \in 1..Len(seq) : seq[i] = x

\* list.index(child): 0-based index, -1 when absent
IndexOf(seq, x) ==
    IF KeyIn(seq, x) THEN (CHOOSE i \in 1..Len(seq) : seq[i] = x) - 1 ELSE -1

\* del d[k] / list.remove(x)
RemoveFrom(seq, x) == SelectSeq(seq, LAMBDA y : y # x)

\* list.insert(pos, x), 0 <= pos <= len
InsertAtEnd(seq, pos, x) == Append(seq, x)
InsertAt(seq, pos, x) ==
    SubSeq(seq, 1, pos) \o <<x>> \o SubSeq(seq, pos + 1, Len(seq))

Listers(kids, n) == {q \in Nodes : KeyIn(kids[q], n)}

\* the nodes below n along children (transitive, n itself excluded unless on a cycle)
RECURSIVE ReachFrom(_, _, _)
ReachFrom(kids, frontier, seen) ==
    LET next == {c \in Nodes : \E q \in frontier : KeyIn(kids[q], c)} \ seen
    IN IF next = {} THEN seen ELSE ReachFrom(kids, next, seen \cup next)

Descendants(kids, n) == ReachFrom(kids, {n}, {})

\* a traversal that starts at r and follows children meets some node twice on one branch
CyclicBelow(kids, r) ==
    \E n \in ({r} \cup Descendants(kids, r)) : n \in Descendants(kids, n)

\* ------------------------------------------------------------ path cache
\* _invalidate_path_cache: depth-first over _children; a children cycle ends
\* in RecursionError after the nodes met so far have been reset.
RECURSIVE InvalNode(_, _, _, _), InvalKids(_, _, _, _, _)
InvalNode(kids, cache, n, fuel) ==
    IF fuel = 0 THEN [cache |-> cache, err |-> TRUE]
    ELSE InvalKids(kids, [cache EXCEPT ![n] = NoPath], kids[n], 1, fuel - 1)
InvalKids(kids, cache, ks, i, fuel) ==
    IF i > Len(ks) THEN [cache |-> cache, err |-> FALSE]
    ELSE LET r == InvalNode(kids, cache, ks[i], fuel)
         IN IF r.err THEN r ELSE InvalKids(kids, r.cache, ks, i + 1, fuel)

InvalidatePathCache(kids, cache, n) == InvalNode(kids, cache, n, NumNodes + 1)

\* ---------------------------------------------------------------- events
\* what a subscriber can see of the subject node at the instant of emit()
Snap(t, subj, recv) ==
    [par |-> t.par[subj], lst |-> Listers(t.kids, subj), at |-> IndexOf(t.kids[recv], subj)]

Event(kind, arg, t, subj, recv) ==
    [kind |-> kind, arg |-> arg, snap |-> Snap(t, subj, recv)]

\* ------------------------------------------------------------- add_child
\* _can_add_child: TreeNode accepts every child; a node typed "folder" is an
\* instance of the FolderNode subclass, whose override accepts documents and
\* folders only
FolderAccepts == {"document", "folder"}

CanAddChildAny(p, c) == [ok |-> TRUE, msg |-> ""]
CanAddChild(p, c) ==
    IF nodeType[p] = "folder" /\ nodeType[c] \notin FolderAccepts
    THEN [ok |-> FALSE, msg |-> "Folders can only contain documents or other folders"]
    ELSE [ok |-> TRUE, msg |-> ""]

\* the tree the emit statements of add_child run against: they follow the mutation
AddEmitTreeEarly(before, after) == before
AddEmitTree(before, after) == after

AddEventsReversed(before, after, sig, p, c, send) ==
    IF send /\ sig[p]
    THEN << Event("tree_structure_changed", Nil, AddEmitTree(before, after), c, p),
            Event("node_added", c, AddEmitTree(before, after), c, p) >>
    ELSE << >>
AddEvents(before, after, sig, p, c, send) ==
    IF send /\ sig[p]
    THEN << Event("node_added", c, AddEmitTree(before, after), c, p),
            Event("tree_structure_changed", Nil, AddEmitTree(before, after), c, p) >>
    ELSE << >>

AddInsert(t, sig, p, c, newKids, send, msg) ==
    LET par1 == [t.par EXCEPT ![c] = p]
        kids1 == [t.kids EXCEPT ![p] = newKids]
        inv == InvalidatePathCache(kids1, t.cache, c)
        t1 == [par |-> par1, kids |-> kids1, cache |-> inv.cache]
    IN IF inv.err
       THEN [ret |-> "raise", msg |-> "RecursionError", t |-> t1, evs |-> << >>]
       ELSE [ret |-> "ok", msg |-> msg, t |-> t1, evs |-> AddEvents(t, t1, sig, p, c, send)]

AddChild(t, sig, p, c, pos, send) ==
    LET can == CanAddChild(p, c)
        exists == [ret |-> "fail", msg |-> "Child already exists in this parent",
                   t |-> t, evs |-> << >>]
    IN IF ~can.ok THEN [ret |-> "fail", msg |-> can.msg, t |-> t, evs |-> << >>]
       ELSE IF pos = NoPos
       THEN IF KeyIn(t.kids[p], c) THEN exists
            ELSE AddInsert(t, sig, p, c, Append(t.kids[p], c), send, "Node added")
       ELSE IF 0 <= pos /\ pos <= Len(t.kids[p])
       THEN IF KeyIn(t.kids[p], c) THEN exists
            ELSE AddInsert(t, sig, p, c, InsertAt(t.kids[p], pos, c), send,
                           "Node added at position")
       ELSE [ret |-> "fail", msg |-> "Invalid position", t |-> t, evs |-> << >>]

\* ---------------------------------------------------------- remove_child
RemoveChildDeep(t, sig, p, c, send) ==
    IF c \notin Descendants(t.kids, p)
    THEN [ret |-> "none", msg |-> "", t |-> t, evs |-> << >>]
    ELSE LET t1 == [par |-> [t.par EXCEPT ![c] = Nil],
                    kids |-> [q \in Nodes |-> RemoveFrom(t.kids[q], c)],
                    cache |-> t.cache]
         IN [ret |-> "ok", msg |-> "", t |-> t1,
             evs |-> IF send /\ sig[p]
                     THEN << Event("node_removed", c, t1, c, p),
                             Event("tree_structure_changed", Nil, t1, c, p) >>
                     ELSE << >>]
RemoveChild(t, sig, p, c, send) ==
    IF ~KeyIn(t.kids[p], c)
    THEN [ret |-> "none", msg |-> "", t |-> t, evs |-> << >>]
    ELSE LET t1 == [t EXCEPT !.kids[p] = RemoveFrom(@, c), !.par[c] = Nil]
         IN [ret |-> "ok", msg |-> "", t |-> t1,
             evs |-> IF send /\ sig[p]
                     THEN << Event("node_removed", c, t1, c, p),
                             Event("tree_structure_changed", Nil, t1, c, p) >>
                     ELSE << >>]

\* --------------------------------------------------------- reorder_child
\* new_position = new_position or len(children_list) - 1
ReorderTargetClamped(pos, len) ==
    IF pos = NoPos \/ pos = 0 \/ pos >= len THEN len - 1 ELSE pos
ReorderTarget(pos, len) == IF pos = NoPos \/ pos = 0 THEN len - 1 ELSE pos

ReorderChild(t, sig, p, c, pos, send) ==
    IF ~KeyIn(t.kids[p], c)
    THEN [ret |-> "fail", msg |-> "Child does not belong to this parent",
          t |-> t, evs |-> << >>]
    ELSE LET len == Len(t.kids[p])
             np == ReorderTarget(pos, len)
             cur == IndexOf(t.kids[p], c)
         IN IF ~(0 <= np /\ np < len)
            THEN [ret |-> "fail", msg |-> "Invalid position", t |-> t, evs |-> << >>]
            ELSE IF cur = np
            THEN [ret |-> "ok", msg |-> "Child already at requested position",
                  t |-> t, evs |-> << >>]
            ELSE LET t1 == [t EXCEPT !.kids[p] = InsertAt(RemoveFrom(@, c), np, c)]
                 IN [ret |-> "ok", msg |-> "Child moved", t |-> t1,
                     evs |-> IF send /\ sig[p]
                             THEN << Event("tree_structure_changed", Nil, t1, c, p) >>
                             ELSE << >>]

\* --------------------------------------------------- get_object_by_uuid
\* depth-first search by id below n; Err stands for the RecursionError a
\* children cycle raises before the id is met
RECURSIVE GetByUuid(_, _, _, _), GetInKids(_, _, _, _, _)
GetByUuid(kids, n, id, fuel) ==
    IF fuel = 0 THEN Err
    ELSE IF n = id THEN n
    ELSE IF KeyIn(kids[n], id) THEN id
    ELSE GetInKids(kids, kids[n], 1, id, fuel - 1)
GetInKids(kids, ks, i, id, fuel) ==
    IF i > Len(ks) THEN Nil
    ELSE LET r == GetByUuid(kids, ks[i], id, fuel)
         IN IF r # Nil THEN r ELSE GetInKids(kids, ks, i + 1, id, fuel)

GetObjectByUuid(kids, r, id) == GetByUuid(kids, r, id, NumNodes + 1)

\* ----------------------------------------------------------- __contains__
\* item in n, the item a node or an id (both cases run the same steps);
\* "RecursionError" is what a children cycle raises before the item is met
ContainsDirect(kids, n, x, fuel) ==
    IF n = x \/ KeyIn(kids[n], x) THEN "true" ELSE "false"

RECURSIVE Contains(_, _, _, _), AnyContains(_, _, _, _, _)
Contains(kids, n, x, fuel) ==
    IF fuel = 0 THEN "RecursionError"
    ELSE IF n = x THEN "true"
    ELSE IF KeyIn(kids[n], x) THEN "true"
    ELSE AnyContains(kids, kids[n], 1, x, fuel - 1)
AnyContains(kids, ks, i, x, fuel) ==
    IF i > Len(ks) THEN "false"
    ELSE LET r == Contains(kids, ks[i], x, fuel)
         IN IF r # "false" THEN r ELSE AnyContains(kids, ks, i + 1, x, fuel)

\* ------------------------------------------------------------------ move
\* send_signals argument of the detaching remove_child call inside move
MoveDetachSignalsOn == TRUE
MoveDetachSignals == FALSE

\* format_tree, evaluated for the debug log once the add succeeded, recurses
\* over the receiver's subtree
FormatTreeRaises(kids, r) == CyclicBelow(kids, r)

\* f"Cannot move to target: {msg}", msg being the hook's message
MoveRefusedMsg(msg) ==
    CASE msg = "Folders can only contain documents or other folders" ->
             "Cannot move to target: Folders can only contain documents or other folders"
      [] msg = "Scalar fields cannot have children" ->
             "Cannot move to target: Scalar fields cannot have children"
      [] msg = "Molecules can only have scalar fields as children" ->
             "Cannot move to target: Molecules can only have scalar fields as children"
      [] msg = "Scalar field already exists" ->
             "Cannot move to target: Scalar field already exists"
      [] msg = "Trajectories can only have molecules as children" ->
             "Cannot move to target: Trajectories can only have molecules as children"
      [] OTHER -> "Cannot move to target: "

MoveNodesNoDetach(t, sig, r, c, q, pos) ==
    IF q = t.par[c] THEN ReorderChild(t, sig, q, c, pos, TRUE)
    ELSE LET added == AddChild(t, sig, q, c, pos, TRUE)
         IN IF added.ret = "ok" THEN [added EXCEPT !.msg = "Node moved successfully"]
            ELSE added
MoveNodes(t, sig, r, c, q, pos) ==
    LET cur == t.par[c] IN
    IF q = cur THEN ReorderChild(t, sig, q, c, pos, TRUE)
    ELSE LET can == CanAddChild(q, c) IN
    IF ~can.ok
    THEN [ret |-> "fail", msg |-> MoveRefusedMsg(can.msg), t |-> t, evs |-> << >>]
    ELSE LET d == IF cur # Nil THEN RemoveChild(t, sig, cur, c, MoveDetachSignals)
                  ELSE [ret |-> "none", msg |-> "", t |-> t, evs |-> << >>]
             a == AddChild(d.t, sig, q, c, pos, TRUE)
         IN IF a.ret = "ok"
            THEN IF FormatTreeRaises(a.t.kids, r)
                 THEN [ret |-> "raise", msg |-> "RecursionError", t |-> a.t,
                       evs |-> d.evs \o a.evs]
                 ELSE [ret |-> "ok", msg |-> "Node moved successfully", t |-> a.t,
                       evs |-> d.evs \o a.evs]
            ELSE IF a.ret = "raise"
            THEN [ret |-> "raise", msg |-> a.msg, t |-> a.t, evs |-> d.evs]
            ELSE [ret |-> "fail", msg |-> a.msg, t |-> a.t, evs |-> d.evs]

Move(t, sig, r, c, q, pos, byId) ==
    LET c1 == IF byId THEN GetObjectByUuid(t.kids, r, c) ELSE c
        q1 == IF byId THEN GetObjectByUuid(t.kids, r, q) ELSE q
    IN IF c1 = Err
       THEN [ret |-> "raise", msg |-> "RecursionError", t |-> t, evs |-> << >>]
       ELSE IF c1 = Nil
       THEN [ret |-> "fail", msg |-> "Child node not found", t |-> t, evs |-> << >>]
       ELSE IF q1 = Err
       THEN [ret |-> "raise", msg |-> "RecursionError", t |-> t, evs |-> << >>]
       ELSE IF q1 = Nil
       THEN [ret |-> "fail", msg |-> "Parent node not found", t |-> t, evs |-> << >>]
       ELSE MoveNodes(t, sig, r, c1, q1, pos)

\* ------------------------------------------------------------------ path
\* NodePath.child(name): parts + [name]
PathChild(parts, nm) == Append(parts, nm)

\* following _parent from n ends at a parentless node
RECURSIVE ChainEnds(_, _, _)
ChainEnds(par, n, fuel) ==
    IF n = Nil THEN TRUE
    ELSE IF fuel = 0 THEN FALSE
    ELSE ChainEnds(par, par[n], fuel - 1)

ParentChainEnds(par, n) == ChainEnds(par, n, NumNodes)

\* the while loop of TreeNode.path: the names from n up to the parentless
\* node, reversed
RECURSIVE WalkUp(_, _, _, _)
WalkUp(par, nm, n, fuel) ==
    IF n = Nil \/ fuel = 0 THEN << >>
    ELSE Append(WalkUp(par, nm, par[n], fuel - 1), nm[n])

ComputePath(par, nm, n) == WalkUp(par, nm, n, NumNodes)

\* what reading n.path returns: the cached value when there is one
PathOf(par, nm, cache, n) ==
    IF cache[n] # NoPath THEN cache[n] ELSE ComputePath(par, nm, n)

\* ------------------------------------------------------------ visibility
\* set_visibility on receiver rcv with a node argument: the visible setter
\* emits on the node's own signals, then set_visibility on the receiver's
SetVisibilityUpward(vis, sig, rcv, n, v) ==
    IF vis[n] # v
    THEN [ret |-> "ok", vis |-> [m \in Nodes |-> IF m \in {n, rcv} THEN v ELSE vis[m]],
          evs |-> << >>]
    ELSE [ret |-> "fail", vis |-> vis, evs |-> << >>]
SetVisibilityAlways(vis, sig, rcv, n, v) ==
    [ret |-> "ok", vis |-> [vis EXCEPT ![n] = v],
     evs |-> (IF sig[n] THEN <<"visibility_changed", "render_changed">> ELSE << >>)
             \o (IF sig[rcv] THEN <<"visibility_changed", "render_changed">>
                 ELSE << >>)]
SetVisibility(vis, sig, rcv, n, v) ==
    IF vis[n] # v
    THEN [ret |-> "ok", vis |-> [vis EXCEPT ![n] = v],
          evs |-> (IF sig[n] THEN <<"visibility_changed", "render_changed">> ELSE << >>)
                  \o (IF sig[rcv] THEN <<"visibility_changed", "render_changed">>
                      ELSE << >>)]
    ELSE [ret |-> "fail", vis |-> vis, evs |-> << >>]

\* set_visibility with its argument as given: an id is looked up below the
\* receiver first
SetVisibilityAt(kids, vis, sig, rcv, x, v, byId) ==
    LET n == IF byId THEN GetObjectByUuid(kids, rcv, x) ELSE x
    IN IF n = Nil THEN [ret |-> "fail", vis |-> vis, evs |-> << >>]
       ELSE IF n = Err THEN [ret |-> "raise", vis |-> vis, evs |-> << >>]
       ELSE SetVisibility(vis, sig, rcv, n, v)

\* ------------------------------------------------------- update_settings
\* settings != self.render_settings: the dataclass compares field values
SettingsDifferByIdentity(a, b) == a # b
SettingsDiffer(a, b) == a.val # b.val

\* TreeNode.update_settings on node n
UpdateSettings(st, sig, n, s) ==
    IF st[n] = NoSettings THEN [st |-> st, evs |-> << >>]
    ELSE IF SettingsDiffer(s, st[n])
    THEN [st |-> [st EXCEPT ![n] = s],
          evs |-> IF sig[n] THEN << [kind |-> "render_changed", arg |-> n] >> ELSE << >>]
    ELSE [st |-> st, evs |-> << >>]

\* SceneManager.update_settings: the node is looked up by id from the root
ManagerUpdateSettings(kids, st, sig, id, s) ==
    LET n == GetObjectByUuid(kids, Root, id)
    IN IF n = Nil \/ n = Err THEN [st |-> st, evs |-> << >>]
       ELSE UpdateSettings(st, sig, n, s)

\* what a node that is not visible contributes to iter_visible
HiddenYieldDescends(below) == below
HiddenYield(below) == << >>

\* iter_visible: the node, then each child's iter_visible in children order,
\* only when the node is visible
RECURSIVE IterVisNode(_, _, _, _), IterVisKids(_, _, _, _, _)
IterVisNode(kids, vis, n, fuel) ==
    IF fuel = 0 THEN << >>
    ELSE IF vis[n] THEN <<n>> \o IterVisKids(kids, vis, kids[n], 1, fuel - 1)
    ELSE HiddenYield(IterVisKids(kids, vis, kids[n], 1, fuel - 1))
IterVisKids(kids, vis, ks, i, fuel) ==
    IF i > Len(ks) THEN << >>
    ELSE IterVisNode(kids, vis, ks[i], fuel) \o IterVisKids(kids, vis, ks, i + 1, fuel)

IterVisible(kids, vis, r) == IterVisNode(kids, vis, r, NumNodes + 1)

\* ------------------------------------------------------------ the machine
T == [par |-> parent, kids |-> children, cache |-> pathCache]

Apply(r) ==
    /\ parent' = r.t.par
    /\ children' = r.t.kids
    /\ pathCache' = r.t.cache

\* The structure is a forest: a node is listed by exactly the node its parent
\* reference names (so by one node at most), and no parent chain loops.
IsForest(par, kids) ==
    /\ \A p, n \in Nodes : KeyIn(kids[p], n) <=> par[n] = p
    /\ \A n \in Nodes : ParentChainEnds(par, n)

Forest == IsForest(parent, children)

\* Callers keep calling while the structure is a forest, and make at most
\* MaxBrokenCalls further calls on a structure some call has corrupted.
Callable == last.op = "none" /\ (Forest \/ broken < MaxBrokenCalls)

Counted == broken' = IF Forest THEN broken ELSE broken + 1

\* the call that has just returned: its arguments, the parent references and
\* children orders it was made on, its result and the events it emitted
Call(op, node, dst, pos, byId, r) ==
    [op |-> op, node |-> node, dst |-> dst, pos |-> pos, byId |-> byId,
     ret |-> r.ret, msg |-> r.msg, evs |-> r.evs,
     pre |-> [par |-> parent, kids |-> children]]

NoCall ==
    [op |-> "none", node |-> Nil, dst |-> Nil, pos |-> NoPos, byId |-> FALSE,
     ret |-> "ok", msg |-> "", evs |-> << >>,
     pre |-> [par |-> << >>, kids |-> << >>]]

Init ==
    /\ parent = [n \in Nodes |-> Nil]
    /\ children = [n \in Nodes |-> << >>]
    /\ pathCache = [n \in Nodes |-> NoPath]
    /\ name = [n \in Nodes |-> IF n % 2 = 1 THEN "a" ELSE "b"]
    /\ visible = [n \in Nodes |-> TRUE]
    /\ signals \in SignalConfigs
    /\ nodeType = SceneTypes
    /\ settings = SceneSettings
    /\ fields = NoFields
    /\ frames = NoFrames
    /\ manager = NoManager
    /\ widget = NoWidget
    /\ last = NoCall
    /\ stack = << >>
    /\ broken = 0

DoAddChild(p, c, pos) ==
    /\ Callable
    /\ LET r == AddChild(T, signals, p, c, pos, TRUE)
       IN /\ Apply(r)
          /\ last' = Call("add_child", c, p, pos, FALSE, r)
    /\ Counted
    /\ UNCHANGED <<widget, name, visible, signals, nodeType, fields, frames, manager,
                   settings, stack>>

DoRemoveChild(p, c) ==
    /\ Callable
    /\ LET r == RemoveChild(T, signals, p, c, TRUE)
       IN /\ Apply(r)
          /\ last' = Call("remove_child", c, p, NoPos, FALSE, r)
    /\ Counted
    /\ UNCHANGED <<widget, name, visible, signals, nodeType, fields, frames, manager,
                   settings, stack>>

DoReorderChild(p, c, pos) ==
    /\ Callable
    /\ LET r == ReorderChild(T, signals, p, c, pos, TRUE)
       IN /\ Apply(r)
          /\ last' = Call("reorder_child", c, p, pos, FALSE, r)
    /\ Counted
    /\ UNCHANGED <<widget, name, visible, signals, nodeType, fields, frames, manager,
                   settings, stack>>

DoMove(c, q, pos, byId) ==
    /\ Callable
    /\ LET r == Move(T, signals, Root, c, q, pos, byId)
       IN /\ Apply(r)
          /\ last' = Call("move", c, q, pos, byId, r)
    /\ Counted
    /\ UNCHANGED <<widget, name, visible, signals, nodeType, fields, frames, manager,
                   settings, stack>>

\* the caller has taken the result and is ready for its next call
Ack ==
    /\ last.op # "none"
    /\ stack = << >>
    /\ last' = NoCall
    /\ UNCHANGED <<widget, parent, children, name, pathCache, visible, signals, nodeType,
                   fields, frames, manager, settings, stack, broken>>

Next ==
    \/ \E p, c \in Nodes, pos \in Positions : DoAddChild(p, c, pos)
    \/ \E p, c \in Nodes : DoRemoveChild(p, c)
    \/ \E p, c \in Nodes, pos \in Positions : DoReorderChild(p, c, pos)
    \/ \E c, q \in Nodes, pos \in Positions, byId \in BOOLEAN :
           DoMove(c, q, pos, byId)
    \/ Ack

Spec == Init /\ [][Next]_vars

TypeOK ==
    /\ parent \in [Nodes -> Nodes \cup {Nil}]
    /\ \A n \in Nodes : Len(children[n]) <= NumNodes

\* ------------------------------------------------------ remove, then add back
\* a caller takes child number i out of p with remove_child and puts it back
\* with add_child(n, position=i)
RemoveThenAdd(t, sig, p, n) ==
    LET i == IndexOf(t.kids[p], n)
        r == RemoveChild(t, sig, p, n, TRUE)
        a == AddChild(r.t, sig, p, n, i, TRUE)
    IN [a EXCEPT !.evs = r.evs \o a.evs]

DoRemoveThenAdd(p, n) ==
    /\ Callable
    /\ KeyIn(children[p], n)
    /\ LET r == RemoveThenAdd(T, signals, p, n)
       IN /\ Apply(r)
          /\ last' = Call("remove_add", n, p, IndexOf(children[p], n), FALSE, r)
    /\ Counted
    /\ UNCHANGED <<widget, name, visible, signals, nodeType, fields, frames, manager,
                   settings, stack>>

NextRound ==
    \/ Next
    \/ \E p, n \in Nodes : DoRemoveThenAdd(p, n)

SpecRound == Init /\ [][NextRound]_vars

\* ------------------------------------------------- nodes with a type filter
\* The same calls on trees that hold FolderNode instances: every node holds
\* the signals object.
FolderTypeConfigs ==
    { [n \in Nodes |-> IF n = Root THEN "folder" ELSE IF n = Root + 1 THEN "document"
                       ELSE "image"],
      [n \in Nodes |-> IF n <= Root + 1 THEN "folder" ELSE "image"] }

InitHook ==
    /\ parent = [n \in Nodes |-> Nil]
    /\ children = [n \in Nodes |-> << >>]
    /\ pathCache = [n \in Nodes |-> NoPath]
    /\ name = [n \in Nodes |-> IF n % 2 = 1 THEN "a" ELSE "b"]
    /\ visible = [n \in Nodes |-> TRUE]
    /\ signals = [n \in Nodes |-> TRUE]
    /\ nodeType \in FolderTypeConfigs
    /\ settings = SceneSettings
    /\ fields = NoFields
    /\ frames = NoFrames
    /\ manager = NoManager
    /\ widget = NoWidget
    /\ last = NoCall
    /\ stack = << >>
    /\ broken = 0

SpecHook == InitHook /\ [][Next]_vars

\* ------------------------------------------- the tree without subscribers
\* The same operations on nodes that hold no signals object (the constructor's
\* default), called on a well-formed tree: nothing is emitted and the caller
\* keeps no result.
Quiet == [n \in Nodes |-> FALSE]

InitQuiet ==
    /\ parent = [n \in Nodes |-> Nil]
    /\ children = [n \in Nodes |-> << >>]
    /\ pathCache = [n \in Nodes |-> NoPath]
    /\ name = [n \in Nodes |-> IF n % 2 = 1 THEN "a" ELSE "b"]
    /\ visible = [n \in Nodes |-> TRUE]
    /\ signals = Quiet
    /\ nodeType = SceneTypes
    /\ settings = SceneSettings
    /\ fields = NoFields
    /\ frames = NoFrames
    /\ manager = NoManager
    /\ widget = NoWidget
    /\ last = NoCall
    /\ stack = << >>
    /\ broken = 0

QuietCall(r) ==
    /\ Forest
    /\ Apply(r)
    /\ UNCHANGED <<widget, name, visible, signals, nodeType, fields, frames, manager,
                   settings, last, stack, broken>>

QuietAddChild(p, c, pos) ==
    QuietCall(AddChild(T, signals, p, c, pos, TRUE))

QuietRemoveChild(p, c) ==
    QuietCall(RemoveChild(T, signals, p, c, TRUE))

QuietReorderChild(p, c, pos) ==
    QuietCall(ReorderChild(T, signals, p, c, pos, TRUE))

QuietMove(c, q, pos) ==
    QuietCall(Move(T, signals, Root, c, q, pos, FALSE))

\* name setter: _name, then _invalidate_path_cache
Rename(n, v) ==
    /\ Forest
    /\ name' = [name EXCEPT ![n] = v]
    /\ pathCache' = InvalidatePathCache(children, pathCache, n).cache
    /\ UNCHANGED <<widget, parent, children, visible, signals, nodeType, fields, frames,
                   manager, settings,
                   last, stack, broken>>

\* path getter: fills the cache of the node read when it is empty
ReadPath(n) ==
    /\ Forest
    /\ pathCache' = [pathCache EXCEPT ![n] = PathOf(parent, name, pathCache, n)]
    /\ UNCHANGED <<widget, parent, children, name, visible, signals, nodeType, fields,
                   frames, manager,
                   settings, last, stack, broken>>

QuietSetVisibility(n, v) ==
    /\ Forest
    /\ visible' = SetVisibility(visible, signals, Root, n, v).vis
    /\ UNCHANGED <<widget, parent, children, name, pathCache, signals, nodeType, fields,
                   frames, manager,
                   settings, last, stack, broken>>

NextPath ==
    \/ \E p, c \in Nodes, pos \in Positions : QuietAddChild(p, c, pos)
    \/ \E p, c \in Nodes : QuietRemoveChild(p, c)
    \/ \E p, c \in Nodes, pos \in Positions : QuietReorderChild(p, c, pos)
    \/ \E c, q \in Nodes, pos \in Positions : QuietMove(c, q, pos)
    \/ \E n \in Nodes, v \in Names : Rename(n, v)
    \/ \E n \in Nodes : ReadPath(n)

SpecPath == InitQuiet /\ [][NextPath]_vars

NextVis ==
    \/ \E p, c \in Nodes, pos \in Positions : QuietAddChild(p, c, pos)
    \/ \E p, c \in Nodes : QuietRemoveChild(p, c)
    \/ \E p, c \in Nodes, pos \in Positions : QuietReorderChild(p, c, pos)
    \/ \E c, q \in Nodes, pos \in Positions : QuietMove(c, q, pos)
    \/ \E n \in Nodes, v \in BOOLEAN : QuietSetVisibility(n, v)

SpecVis == InitQuiet /\ [][NextVis]_vars

\* ------------------------------------------------ visibility calls, observed
\* Trees built with add_child and remove_child, nodes with or without the
\* signals object; the caller keeps the arguments, the flags and the tree before the call,
\* the result and the events of its last set_visibility on the root.
InitNode ==
    /\ parent = [n \in Nodes |-> Nil]
    /\ children = [n \in Nodes |-> << >>]
    /\ pathCache = [n \in Nodes |-> NoPath]
    /\ name = [n \in Nodes |-> IF n % 2 = 1 THEN "a" ELSE "b"]
    /\ visible = [n \in Nodes |-> TRUE]
    /\ signals \in SignalConfigs
    /\ nodeType = SceneTypes
    /\ settings = SceneSettings
    /\ fields = NoFields
    /\ frames = NoFrames
    /\ manager = NoManager
    /\ widget = NoWidget
    /\ last = NoCall
    /\ stack = << >>
    /\ broken = 0

\* tree building between two observed calls
BuildAddChild(p, c, pos) == last.op = "none" /\ QuietAddChild(p, c, pos)
BuildRemoveChild(p, c) == last.op = "none" /\ QuietRemoveChild(p, c)

DoSetVisibility(x, v, byId) ==
    /\ last.op = "none"
    /\ Forest
    /\ LET r == SetVisibilityAt(children, visible, signals, Root, x, v, byId)
       IN /\ visible' = r.vis
          /\ last' = [NoCall EXCEPT !.op = "set_visibility", !.node = x, !.dst = Root,
                                    !.byId = byId, !.ret = r.ret, !.evs = r.evs,
                                    !.pre = [vis |-> visible, val |-> v, kids |-> children]]
    /\ UNCHANGED <<widget, parent, children, name, pathCache, signals, nodeType, fields,
                   frames, manager, settings,
                   stack, broken>>

NextVisCalls ==
    \/ \E p, c \in Nodes, pos \in Positions : BuildAddChild(p, c, pos)
    \/ \E p, c \in Nodes : BuildRemoveChild(p, c)
    \/ \E x \in Nodes, v \in BOOLEAN, byId \in BOOLEAN : DoSetVisibility(x, v, byId)
    \/ Ack

SpecVisCalls == InitNode /\ [][NextVisCalls]_vars

\* -------------------------------------------------- settings calls, observed
DoUpdateSettings(id, s) ==
    /\ last.op = "none"
    /\ Forest
    /\ LET r == ManagerUpdateSettings(children, settings, signals, id, s)
       IN /\ settings' = r.st
          /\ last' = [NoCall EXCEPT !.op = "update_settings", !.node = id, !.dst = Root,
                                    !.byId = TRUE, !.ret = "none", !.evs = r.evs,
                                    !.pre = [st |-> settings, val |-> s, kids |-> children]]
    /\ UNCHANGED <<widget, parent, children, name, pathCache, visible, signals, nodeType,
                   fields, frames, manager,
                   stack, broken>>

NextSettings ==
    \/ \E p, c \in Nodes, pos \in Positions : BuildAddChild(p, c, pos)
    \/ \E p, c \in Nodes : BuildRemoveChild(p, c)
    \/ \E id \in Nodes, s \in AllSettings : DoUpdateSettings(id, s)
    \/ Ack

SpecSettings == InitNode /\ [][NextSettings]_vars

\* ------------------------------------------------- subscribers that call back
\* Every node holds the shared signals object and emit() runs the connected
\* handlers before it returns. A frame of `stack` is one operation whose
\* mutation is done and whose emit statements are still to run (todo); a
\* handler either returns at once or calls one more operation on the tree,
\* whose frame then sits above the caller's. A call that would raise inside a
\* handler is not followed (the exception leaves through the emit).
Loud == [n \in Nodes |-> TRUE]

InitReentrant ==
    /\ parent = [n \in Nodes |-> Nil]
    /\ children = [n \in Nodes |-> << >>]
    /\ pathCache = [n \in Nodes |-> NoPath]
    /\ name = [n \in Nodes |-> IF n % 2 = 1 THEN "a" ELSE "b"]
    /\ visible = [n \in Nodes |-> TRUE]
    /\ signals = Loud
    /\ nodeType = SceneTypes
    /\ settings = SceneSettings
    /\ fields = NoFields
    /\ frames = NoFrames
    /\ manager = NoManager
    /\ widget = NoWidget
    /\ last = NoCall
    /\ stack = << >>
    /\ broken = 0

Frame(op, r) ==
    [op |-> op, todo |-> [i \in 1..Len(r.evs) |-> r.evs[i].kind], nested |-> FALSE]

Top == stack[Len(stack)]
Below == SubSeq(stack, 1, Len(stack) - 1)

\* a caller outside any handler, on a well-formed tree
OuterCall(op, r) ==
    /\ stack = << >>
    /\ Forest
    /\ Apply(r)
    /\ stack' = <<Frame(op, r)>>
    /\ UNCHANGED <<widget, name, visible, signals, nodeType, fields, frames, manager,
                   settings, last, broken>>

\* the handler of the top frame's next event calls op before it returns
NestedCall(op, r) ==
    /\ stack # << >>
    /\ Len(stack) < MaxDepth
    /\ Top.todo # << >>
    /\ r.ret # "raise"
    /\ Apply(r)
    /\ stack' = Append(Append(Below, [Top EXCEPT !.todo = Tail(@), !.nested = TRUE]),
                       Frame(op, r))
    /\ UNCHANGED <<widget, name, visible, signals, nodeType, fields, frames, manager,
                   settings, last, broken>>

OuterAddChild(p, c, pos) == OuterCall("add_child", AddChild(T, signals, p, c, pos, TRUE))
OuterRemoveChild(p, c) == OuterCall("remove_child", RemoveChild(T, signals, p, c, TRUE))
OuterMove(c, q, pos) == OuterCall("move", Move(T, signals, Root, c, q, pos, FALSE))

NestedAddChild(p, c, pos) == NestedCall("add_child", AddChild(T, signals, p, c, pos, TRUE))
NestedRemoveChild(p, c) == NestedCall("remove_child", RemoveChild(T, signals, p, c, TRUE))
NestedMove(c, q, pos) == NestedCall("move", Move(T, signals, Root, c, q, pos, FALSE))

\* the handler of the top frame's next event returns without calling back
Deliver ==
    /\ stack # << >>
    /\ Top.todo # << >>
    /\ stack' = Append(Below, [Top EXCEPT !.todo = Tail(@)])
    /\ UNCHANGED <<widget, parent, children, name, pathCache, visible, signals, nodeType,
                   fields, frames, manager, settings, last, broken>>

\* the top operation has run all its emit statements and returns
Return ==
    /\ stack # << >>
    /\ Top.todo = << >>
    /\ stack' = Below
    /\ UNCHANGED <<widget, parent, children, name, pathCache, visible, signals, nodeType,
                   fields, frames, manager, settings, last, broken>>

NextReentrant ==
    \/ \E p, c \in Nodes, pos \in Positions : OuterAddChild(p, c, pos)
    \/ \E p, c \in Nodes : OuterRemoveChild(p, c)
    \/ \E c, q \in Nodes, pos \in Positions : OuterMove(c, q, pos)
    \/ \E p, c \in Nodes, pos \in Positions : NestedAddChild(p, c, pos)
    \/ \E p, c \in Nodes : NestedRemoveChild(p, c)
    \/ \E c, q \in Nodes, pos \in Positions : NestedMove(c, q, pos)
    \/ Deliver
    \/ Return

SpecReentrant == InitReentrant /\ [][NextReentrant]_vars

\* ------------------------------------------------------------ domain nodes
\* MoleculeObject, ScalarFieldObject and TrajectoryObject as TreeNode
\* subclasses: the acceptance hooks and the overrides that keep
\* molecule.scalar_fields and the trajectory's frame list in step with the
\* children. d is the tree together with the backing collections:
\* [t |-> tree, f |-> fields, fr |-> frames].
FieldEntry(c) == [key |-> name[c], payload |-> c]

ChildNames(t, p) == {name[t.kids[p][i]] : i \in 1..Len(t.kids[p])}

\* _can_add_child of the receiver's class
DomainCanAddChildLeafOpen(t, p, c) ==
    IF nodeType[p] = "molecule" /\ nodeType[c] # "scalar_field"
    THEN [ok |-> FALSE, msg |-> "Molecules can only have scalar fields as children"]
    ELSE IF nodeType[p] = "molecule" /\ name[c] \in ChildNames(t, p)
    THEN [ok |-> FALSE, msg |-> "Scalar field already exists"]
    ELSE IF nodeType[p] = "trajectory" /\ nodeType[c] # "molecule"
    THEN [ok |-> FALSE, msg |-> "Trajectories can only have molecules as children"]
    ELSE CanAddChild(p, c)
DomainCanAddChildAnyName(t, p, c) ==
    IF nodeType[p] = "scalar_field"
    THEN [ok |-> FALSE, msg |-> "Scalar fields cannot have children"]
    ELSE IF nodeType[p] = "molecule" /\ nodeType[c] # "scalar_field"
    THEN [ok |-> FALSE, msg |-> "Molecules can only have scalar fields as children"]
    ELSE IF nodeType[p] = "trajectory" /\ nodeType[c] # "molecule"
    THEN [ok |-> FALSE, msg |-> "Trajectories can only have molecules as children"]
    ELSE CanAddChild(p, c)
DomainCanAddChild(t, p, c) ==
    IF nodeType[p] = "scalar_field"
    THEN [ok |-> FALSE, msg |-> "Scalar fields cannot have children"]
    ELSE IF nodeType[p] = "molecule" /\ nodeType[c] # "scalar_field"
    THEN [ok |-> FALSE, msg |-> "Molecules can only have scalar fields as children"]
    ELSE IF nodeType[p] = "molecule" /\ name[c] \in ChildNames(t, p)
    THEN [ok |-> FALSE, msg |-> "Scalar field already exists"]
    ELSE IF nodeType[p] = "trajectory" /\ nodeType[c] # "molecule"
    THEN [ok |-> FALSE, msg |-> "Trajectories can only have molecules as children"]
    ELSE CanAddChild(p, c)

\* the dictionary after the child was removed: del scalar_fields[child.name]
FieldsDeleteKept(f, c) == f
FieldsDelete(f, c) == SelectSeq(f, LAMBDA e : e.key # name[c])

\* the dictionary after the child was added at pos
FieldsInsert(f, c, pos) ==
    IF pos = NoPos THEN Append(f, FieldEntry(c)) ELSE InsertAt(f, pos, FieldEntry(c))

\* the dictionary after the child was put at index at of the children
FieldsReorder(f, c, at) == InsertAt(FieldsDelete(f, c), at, FieldEntry(c))

\* the frame list holds the molecule payloads of the children (the payload of
\* node c is c): the list after the child was removed, added at pos, put at
\* index at
FramesDelete(fr, c) == RemoveFrom(fr, c)

FramesInsertAppended(fr, c, pos) == Append(fr, c)
FramesInsert(fr, c, pos) ==
    IF pos = NoPos THEN Append(fr, c) ELSE InsertAt(fr, pos, c)

FramesReorder(fr, c, at) == InsertAt(FramesDelete(fr, c), at, c)

DomainAddChild(d, sig, p, c, pos, send) ==
    LET can == DomainCanAddChild(d.t, p, c)
        r == AddChild(d.t, sig, p, c, pos, send)
    IN IF ~can.ok
       THEN [ret |-> "fail", msg |-> can.msg, t |-> d.t, f |-> d.f, fr |-> d.fr,
             evs |-> << >>]
       ELSE [ret |-> r.ret, msg |-> r.msg, t |-> r.t, evs |-> r.evs,
             f |-> IF r.ret = "ok" /\ nodeType[p] = "molecule"
                   THEN [d.f EXCEPT ![p] = FieldsInsert(@, c, pos)] ELSE d.f,
             fr |-> IF r.ret = "ok" /\ nodeType[p] = "trajectory"
                    THEN [d.fr EXCEPT ![p] = FramesInsert(@, c, pos)] ELSE d.fr]

DomainRemoveChild(d, sig, p, c, send) ==
    LET r == RemoveChild(d.t, sig, p, c, send)
    IN [ret |-> r.ret, msg |-> r.msg, t |-> r.t, evs |-> r.evs,
        f |-> IF r.ret = "ok" /\ nodeType[p] = "molecule"
              THEN [d.f EXCEPT ![p] = FieldsDelete(@, c)] ELSE d.f,
        fr |-> IF r.ret = "ok" /\ nodeType[p] = "trajectory"
               THEN [d.fr EXCEPT ![p] = FramesDelete(@, c)] ELSE d.fr]

DomainReorderChild(d, sig, p, c, pos, send) ==
    LET r == ReorderChild(d.t, sig, p, c, pos, send)
    IN [ret |-> r.ret, msg |-> r.msg, t |-> r.t, evs |-> r.evs,
        f |-> IF r.ret = "ok" /\ nodeType[p] = "molecule"
              THEN [d.f EXCEPT ![p] = FieldsReorder(@, c, IndexOf(r.t.kids[p], c))]
              ELSE d.f,
        fr |-> IF r.ret = "ok" /\ nodeType[p] = "trajectory"
               THEN [d.fr EXCEPT ![p] = FramesReorder(@, c, IndexOf(r.t.kids[p], c))]
               ELSE d.fr]

\* TreeNode.move, its calls dispatched to the classes of the two parents
DomainMove(d, sig, r, c, q, pos) ==
    LET cur == d.t.par[c] IN
    IF q = cur THEN DomainReorderChild(d, sig, q, c, pos, TRUE)
    ELSE LET can == DomainCanAddChild(d.t, q, c) IN
    IF ~can.ok
    THEN [ret |-> "fail", msg |-> MoveRefusedMsg(can.msg), t |-> d.t, f |-> d.f,
          fr |-> d.fr, evs |-> << >>]
    ELSE LET x == IF cur # Nil THEN DomainRemoveChild(d, sig, cur, c, MoveDetachSignals)
                  ELSE [ret |-> "none", msg |-> "", t |-> d.t, f |-> d.f, fr |-> d.fr,
                        evs |-> << >>]
             a == DomainAddChild([t |-> x.t, f |-> x.f, fr |-> x.fr], sig, q, c, pos, TRUE)
         IN IF a.ret = "ok" /\ FormatTreeRaises(a.t.kids, r)
            THEN [a EXCEPT !.ret = "raise", !.msg = "RecursionError"]
            ELSE a

D == [t |-> T, f |-> fields, fr |-> frames]

\* one molecule with two fields of different names, one molecule with two
\* fields of the same name, two molecules and a field, a trajectory with two
\* molecules, a trajectory with a molecule and a field
DomainTypeConfigs ==
    { [n \in Nodes |-> IF n = Root THEN "molecule" ELSE "scalar_field"],
      [n \in Nodes |-> IF n = Root + 1 THEN "molecule" ELSE "scalar_field"],
      [n \in Nodes |-> IF n <= Root + 1 THEN "molecule" ELSE "scalar_field"],
      [n \in Nodes |-> IF n = Root THEN "trajectory" ELSE "molecule"],
      [n \in Nodes |-> IF n = Root THEN "trajectory" ELSE IF n = Root + 1 THEN "molecule"
                       ELSE "scalar_field"] }

InitDomain ==
    /\ parent = [n \in Nodes |-> Nil]
    /\ children = [n \in Nodes |-> << >>]
    /\ pathCache = [n \in Nodes |-> NoPath]
    /\ name = [n \in Nodes |-> IF n % 2 = 1 THEN "a" ELSE "b"]
    /\ visible = [n \in Nodes |-> TRUE]
    /\ signals = [n \in Nodes |-> TRUE]
    /\ nodeType \in DomainTypeConfigs
    /\ settings = SceneSettings
    /\ fields = NoFields
    /\ frames = NoFrames
    /\ manager = NoManager
    /\ widget = NoWidget
    /\ last = NoCall
    /\ stack = << >>
    /\ broken = 0

\* the caller also keeps the backing collections the call was made on
DomainCall(op, node, dst, pos, r) ==
    /\ Callable
    /\ Apply(r)
    /\ fields' = r.f
    /\ frames' = r.fr
    /\ last' = [Call(op, node, dst, pos, FALSE, r) EXCEPT
                   !.pre = [par |-> parent, kids |-> children, f |-> fields,
                            fr |-> frames]]
    /\ Counted
    /\ UNCHANGED <<widget, name, visible, signals, nodeType, settings, manager, stack>>

DomAddChild(p, c, pos) ==
    DomainCall("add_child", c, p, pos, DomainAddChild(D, signals, p, c, pos, TRUE))
DomRemoveChild(p, c) ==
    DomainCall("remove_child", c, p, NoPos, DomainRemoveChild(D, signals, p, c, TRUE))
DomReorderChild(p, c, pos) ==
    DomainCall("reorder_child", c, p, pos, DomainReorderChild(D, signals, p, c, pos, TRUE))
DomMove(c, q, pos) ==
    DomainCall("move", c, q, pos, DomainMove(D, signals, Root, c, q, pos))

\* remove_child, then add_child at the old index, on a domain node
DomainRemoveThenAdd(d, sig, p, n) ==
    LET i == IndexOf(d.t.kids[p], n)
        r == DomainRemoveChild(d, sig, p, n, TRUE)
        a == DomainAddChild([t |-> r.t, f |-> r.f, fr |-> r.fr], sig, p, n, i, TRUE)
    IN [a EXCEPT !.evs = r.evs \o a.evs]

DomRemoveThenAdd(p, n) ==
    /\ KeyIn(children[p], n)
    /\ DomainCall("remove_add", n, p, IndexOf(children[p], n),
                  DomainRemoveThenAdd(D, signals, p, n))

NextDomain ==
    \/ \E p, c \in Nodes, pos \in Positions : DomAddChild(p, c, pos)
    \/ \E p, c \in Nodes : DomRemoveChild(p, c)
    \/ \E p, c \in Nodes, pos \in Positions : DomReorderChild(p, c, pos)
    \/ \E c, q \in Nodes, pos \in Positions : DomMove(c, q, pos)
    \/ \E p, n \in Nodes : DomRemoveThenAdd(p, n)
    \/ Ack

SpecDomain == InitDomain /\ [][NextDomain]_vars

\* ------------------------------------------------------------ SceneManager
\* The tree of a SceneManager: a plain TreeNode root and the domain nodes the
\* manager constructs. In this specification signals[n] is the signals object
\* node n holds, NoSignals for None.
HoldingOf(sg) == [n \in Nodes |-> sg[n] # NoSignals]

\* TreeNode.__init__ with a parent argument: _parent = parent
Construct(t, n, p) == [t EXCEPT !.par[n] = p]

\* the classes of the objects the callers have the manager create
ManagerTypeConfigs ==
    { [n \in Nodes |-> IF n = Root THEN "root" ELSE IF n = Root + 1 THEN "molecule"
                       ELSE "scalar_field"],
      [n \in Nodes |-> IF n = Root THEN "root" ELSE IF n = Root + 1 THEN "trajectory"
                       ELSE "molecule"],
      [n \in Nodes |-> IF n = Root THEN "root" ELSE IF n = Root + 1 THEN "scalar_field"
                       ELSE "trajectory"] }

\* SceneManager.__init__: the root, then the tree_signals setter
InitManager ==
    /\ parent = [n \in Nodes |-> Nil]
    /\ children = [n \in Nodes |-> << >>]
    /\ pathCache = [n \in Nodes |-> NoPath]
    /\ name = [n \in Nodes |-> IF n % 2 = 1 THEN "a" ELSE "b"]
    /\ visible = [n \in Nodes |-> TRUE]
    /\ manager \in [signals : SignalObjects \cup {NoSignals}, made : {{Root}}]
    /\ widget = NoWidget
    /\ signals = [n \in Nodes |-> IF n = Root THEN manager.signals ELSE NoSignals]
    /\ nodeType \in ManagerTypeConfigs
    /\ settings = SceneSettings
    /\ fields = NoFields
    /\ frames = NoFrames
    /\ last = NoCall
    /\ stack = << >>
    /\ broken = 0

\* an id the manager has given out is looked up from the root
ManagerGet(kids, id) == GetObjectByUuid(kids, Root, id)

\* one call on the manager while its tree is a forest: r is what its tree
\* operation returned, sg the signals objects held afterwards, made the ids
\* constructed so far
ManagerCall(op, node, dst, pos, r, sg, made) ==
    /\ last.op = "none"
    /\ Forest
    /\ Apply(r)
    /\ fields' = r.f
    /\ frames' = r.fr
    /\ signals' = sg
    /\ manager' = [manager EXCEPT !.made = made]
    /\ last' = [Call(op, node, dst, pos, TRUE, r) EXCEPT
                   !.pre = [par |-> parent, kids |-> children, f |-> fields,
                            fr |-> frames]]
    /\ UNCHANGED <<widget, name, visible, nodeType, settings, stack, broken>>

\* a node of class kind constructed with signals object s and parent argument
\* p, then added under q with q.add_child(node)
ManagerAdd(op, n, kind, s, p, q) ==
    /\ n \notin manager.made
    /\ nodeType[n] = kind
    /\ LET sg == [signals EXCEPT ![n] = s]
           d == [D EXCEPT !.t = Construct(@, n, p)]
           r == IF q = Nil
                THEN [ret |-> "raise", msg |-> "AttributeError", t |-> d.t, f |-> d.f,
                      fr |-> d.fr, evs |-> << >>]
                ELSE DomainAddChild(d, HoldingOf(sg), q, n, NoPos, TRUE)
       IN ManagerCall(op, n, q, NoPos,
                      IF r.ret = "fail" THEN [r EXCEPT !.ret = "raise"] ELSE r,
                      sg, manager.made \cup {n})

\* load_xyz of a file with one frame
MgrLoadXyz(n) ==
    ManagerAdd("load_xyz", n, "molecule", manager.signals, Nil, Root)

\* load_scalar_field_from_cube: ScalarFieldObject.from_cube_file(filepath)
MgrLoadScalarField(n) ==
    ManagerAdd("load_scalar_field_from_cube", n, "scalar_field", NoSignals, Nil, Root)

\* create_trajectory(name, parent_uuid): TrajectoryObject(name, traj)
MgrCreateTrajectory(n, pid) ==
    ManagerAdd("create_trajectory", n, "trajectory", NoSignals, Nil,
               IF pid = Nil THEN Root ELSE ManagerGet(children, pid))

\* add_molecule, add_scalar_field: parent=self.root, signals=self._tree_signals
MgrAddMolecule(n) ==
    ManagerAdd("add_molecule", n, "molecule", manager.signals, Root, Root)

MgrAddScalarField(n) ==
    ManagerAdd("add_scalar_field", n, "scalar_field", manager.signals, Root, Root)

StayedPut(op) ==
    [ret |-> "none", msg |-> op, t |-> T, f |-> fields, fr |-> frames, evs |-> << >>]

\* move_object(uuid, new_parent_uuid, position)
MgrMoveObject(id, pid, pos) ==
    LET c == ManagerGet(children, id)
        q == ManagerGet(children, pid)
    IN ManagerCall("move_object", id, pid, pos,
                   IF c = Nil \/ q = Nil THEN StayedPut("not found")
                   ELSE DomainMove(D, HoldingOf(signals), Root, c, q, pos),
                   signals, manager.made)

\* delete_object(uuid): self.root.remove_child(obj)
MgrDeleteObject(id) ==
    LET n == ManagerGet(children, id)
    IN ManagerCall("delete_object", id, Root, NoPos,
                   IF n = Nil THEN StayedPut("not found")
                   ELSE DomainRemoveChild(D, HoldingOf(signals), Root, n, TRUE),
                   signals, manager.made)

\* tree_signals setter: the value is given to every node iter_tree yields
\* from the root; iter_tree reads each node's path, which fills its cache
MgrSetTreeSignals(v) ==
    /\ last.op = "none"
    /\ Forest
    /\ LET tree == {Root} \cup Descendants(children, Root)
       IN /\ signals' = [n \in Nodes |-> IF n \in tree THEN v ELSE signals[n]]
          /\ pathCache' = [n \in Nodes |->
                              IF n \in tree THEN PathOf(parent, name, pathCache, n)
                              ELSE pathCache[n]]
    /\ manager' = [manager EXCEPT !.signals = v]
    /\ last' = [NoCall EXCEPT !.op = "tree_signals"]
    /\ UNCHANGED <<widget, parent, children, name,
                   visible, nodeType, settings, fields, frames,
                   stack, broken>>

NextManager ==
    \/ \E n \in Nodes : MgrLoadXyz(n)
    \/ \E n \in Nodes : MgrLoadScalarField(n)
    \/ \E n \in Nodes, pid \in Nodes \cup {Nil} : MgrCreateTrajectory(n, pid)
    \/ \E n \in Nodes : MgrAddMolecule(n)
    \/ \E n \in Nodes : MgrAddScalarField(n)
    \/ \E id, pid \in Nodes, pos \in Positions : MgrMoveObject(id, pid, pos)
    \/ \E id \in Nodes : MgrDeleteObject(id)
    \/ \E v \in SignalObjects \cup {NoSignals} : MgrSetTreeSignals(v)
    \/ Ack

SpecManager == InitManager /\ [][NextManager]_vars

\* ------------------------------------------- construction, parent assignment
\* a node as TreeNode(name) leaves it: no parent, no children, listed nowhere,
\* no cached path
Pristine(n) ==
    /\ parent[n] = Nil
    /\ children[n] = << >>
    /\ Listers(children, n) = {}
    /\ pathCache[n] = NoPath
    /\ \A q \in Nodes : parent[q] # n

\* the parent setter: _remove_child_internal and _add_child_internal are
\* attributes no class defines, so reaching either call raises AttributeError
\* and the statements after it do not run
SetParent(t, n, q) ==
    IF t.par[n] # Nil /\ KeyIn(t.kids[t.par[n]], n)
    THEN [ret |-> "raise", msg |-> "AttributeError", t |-> t, evs |-> << >>]
    ELSE LET t1 == [t EXCEPT !.par[n] = q]
             inv == InvalidatePathCache(t1.kids, t1.cache, n)
         IN IF q # Nil
            THEN [ret |-> "raise", msg |-> "AttributeError", t |-> t1, evs |-> << >>]
            ELSE IF inv.err
            THEN [ret |-> "raise", msg |-> "RecursionError",
                  t |-> [t1 EXCEPT !.cache = inv.cache], evs |-> << >>]
            ELSE [ret |-> "ok", msg |-> "", t |-> [t1 EXCEPT !.cache = inv.cache],
                  evs |-> << >>]

\* x = TreeNode(name, parent=p): the object is new, p exists already
DoConstruct(n, p) ==
    /\ last.op = "none"
    /\ Pristine(n)
    /\ p # n
    /\ LET r == [ret |-> "ok", msg |-> "", t |-> Construct(T, n, p), evs |-> << >>]
       IN /\ Apply(r)
          /\ last' = Call("construct", n, p, NoPos, FALSE, r)
    /\ UNCHANGED <<widget, name, visible, signals,
                   nodeType, fields, frames, manager, settings,
                   stack, broken>>

\* n.parent = q, q a node or None
DoSetParent(n, q) ==
    /\ last.op = "none"
    /\ LET r == SetParent(T, n, q)
       IN /\ Apply(r)
          /\ last' = Call("set_parent", n, q, NoPos, FALSE, r)
    /\ UNCHANGED <<widget, name, visible, signals,
                   nodeType, fields, frames, manager, settings,
                   stack, broken>>

NextParent ==
    \/ \E p, c \in Nodes, pos \in Positions : BuildAddChild(p, c, pos)
    \/ \E p, c \in Nodes : BuildRemoveChild(p, c)
    \/ \E n \in Nodes, p \in Nodes \cup {Nil} : DoConstruct(n, p)
    \/ \E n \in Nodes, q \in Nodes \cup {Nil} : DoSetParent(n, q)
    \/ Ack

SpecParent == InitQuiet /\ [][NextParent]_vars

\* ---------------------------------------------------------------- NodePath
\* NodePath on its own: a string is a sequence of characters, a path a
\* sequence of segments
MaxParts == 2
MaxSegLen == 2
Separator == "/"

SeqsUpTo(S, n) == UNION {[1..k -> S] : k \in 0..n}
\* segments are made of a letter and the separator
NodePaths == SeqsUpTo(SeqsUpTo({"a", Separator}, MaxSegLen), MaxParts)

\* '/'.join(parts)
RECURSIVE Join(_)
Join(parts) ==
    IF parts = << >> THEN << >>
    ELSE IF Len(parts) = 1 THEN parts[1]
    ELSE parts[1] \o <<Separator>> \o Join(Tail(parts))

\* NodePath.__str__
NodePathStr(parts) == <<Separator>> \o Join(parts)

\* str.strip('/')
RECURSIVE LStrip(_), RStrip(_)
LStrip(s) == IF s # << >> /\ Head(s) = Separator THEN LStrip(Tail(s)) ELSE s
RStrip(s) ==
    IF s # << >> /\ s[Len(s)] = Separator THEN RStrip(SubSeq(s, 1, Len(s) - 1)) ELSE s

\* str.split('/'): the empty string splits into one empty segment
RECURSIVE SplitFrom(_, _)
SplitFrom(s, cur) ==
    IF s = << >> THEN <<cur>>
    ELSE IF Head(s) = Separator THEN <<cur>> \o SplitFrom(Tail(s), << >>)
    ELSE SplitFrom(Tail(s), Append(cur, Head(s)))

\* NodePath.from_string
NodePathFromString(s) == SplitFrom(RStrip(LStrip(s)), << >>)

\* a NodePath has been created with the parts given
InitNodePath ==
    /\ parent = [n \in Nodes |-> Nil]
    /\ children = [n \in Nodes |-> << >>]
    /\ pathCache = [n \in Nodes |-> NoPath]
    /\ name = [n \in Nodes |-> IF n % 2 = 1 THEN "a" ELSE "b"]
    /\ visible = [n \in Nodes |-> TRUE]
    /\ signals = Quiet
    /\ nodeType = SceneTypes
    /\ settings = SceneSettings
    /\ fields = NoFields
    /\ frames = NoFrames
    /\ manager = NoManager
    /\ widget = NoWidget
    /\ \E p \in NodePaths :
           last = [NoCall EXCEPT !.op = "NodePath", !.pre = [parts |-> p]]
    /\ stack = << >>
    /\ broken = 0

\* text = str(path)
PathFormat ==
    /\ last.op = "NodePath"
    /\ last' = [last EXCEPT !.op = "str",
                            !.pre = [parts |-> last.pre.parts,
                                     text |-> NodePathStr(last.pre.parts),
                                     slash |-> FALSE]]
    /\ UNCHANGED <<widget, parent, children, name, pathCache, visible, signals, nodeType,
                   fields, frames, manager, settings, stack, broken>>

\* text = text + '/'
PathAppendSlash ==
    /\ last.op = "str"
    /\ ~last.pre.slash
    /\ last' = [last EXCEPT !.pre.text = Append(@, Separator), !.pre.slash = TRUE]
    /\ UNCHANGED <<widget, parent, children, name, pathCache, visible, signals, nodeType,
                   fields, frames, manager, settings, stack, broken>>

\* NodePath.from_string(text)
PathParse ==
    /\ last.op = "str"
    /\ last' = [last EXCEPT !.op = "from_string",
                            !.ret = NodePathFromString(last.pre.text)]
    /\ UNCHANGED <<widget, parent, children, name, pathCache, visible, signals, nodeType,
                   fields, frames, manager, settings, stack, broken>>

NextNodePath ==
    \/ PathFormat
    \/ PathAppendSlash
    \/ PathParse

SpecNodePath == InitNodePath /\ [][NextNodePath]_vars

\* ------------------------------------------------------- lookups, observed
\* the ids of the nodes and one id that no node has
Ids == 1..(NumNodes + 1)

\* r.get_object_by_uuid(id)
DoGetObjectByUuid(r, id) ==
    /\ last.op = "none"
    /\ Forest
    /\ last' = [NoCall EXCEPT !.op = "get_object_by_uuid", !.node = id, !.dst = r,
                              !.byId = TRUE,
                              !.ret = GetObjectByUuid(children, r, id),
                              !.pre = [par |-> parent, kids |-> children]]
    /\ UNCHANGED <<widget, parent, children, name, pathCache, visible, signals, nodeType,
                   fields, frames, manager, settings, stack, broken>>

\* x in r, x a node (byId false) or an id
DoContains(r, x, byId) ==
    /\ last.op = "none"
    /\ Forest
    /\ byId \/ x \in Nodes
    /\ last' = [NoCall EXCEPT !.op = "contains", !.node = x, !.dst = r,
                              !.byId = byId,
                              !.ret = Contains(children, r, x, NumNodes + 1),
                              !.pre = [par |-> parent, kids |-> children]]
    /\ UNCHANGED <<widget, parent, children, name, pathCache, visible, signals, nodeType,
                   fields, frames, manager, settings, stack, broken>>

NextLookup ==
    \/ \E p, c \in Nodes, pos \in Positions : BuildAddChild(p, c, pos)
    \/ \E p, c \in Nodes : BuildRemoveChild(p, c)
    \/ \E r \in Nodes, id \in Ids : DoGetObjectByUuid(r, id)
    \/ \E r \in Nodes, x \in Ids, byId \in BOOLEAN : DoContains(r, x, byId)
    \/ Ack

SpecLookup == InitQuiet /\ [][NextLookup]_vars

\* ------------------------------------------------------------ find_by_path
\* a name is one character; str(path) of a path of names
PathText(path) == NodePathStr([i \in 1..Len(path) |-> <<path[i]>>])

\* for child in current.children: if child.name == part
FirstNamed(ks, nm, part) ==
    IF \E i \in 1..Len(ks) : <<nm[ks[i]]>> = part
    THEN ks[CHOOSE i \in 1..Len(ks) :
                /\ <<nm[ks[i]]>> = part
                /\ \A j \in 1..(i - 1) : <<nm[ks[j]]>> # part]
    ELSE Nil

RECURSIVE WalkDown(_, _, _, _)
WalkDown(kids, nm, cur, rest) ==
    IF rest = << >> THEN cur
    ELSE LET c == FirstNamed(kids[cur], nm, rest[1])
         IN IF c = Nil THEN Nil ELSE WalkDown(kids, nm, c, Tail(rest))

\* r.find_by_path(text), text a string
FindByPath(kids, nm, r, text) ==
    LET parts == NodePathFromString(text)
    IN IF parts = << >> \/ (Len(parts) = 1 /\ parts[1] = <<nm[r]>>) THEN r
       ELSE IF parts[1] # <<nm[r]>> THEN Nil
       ELSE WalkDown(kids, nm, r, Tail(parts))

\* r.find_by_path(str(n.path)) when n is a node, r.find_by_path(str(NodePath(p)))
\* otherwise; reading n.path fills n's cache
DoFindByPath(r, n, p) ==
    /\ last.op = "none"
    /\ Forest
    /\ parent[r] = Nil
    /\ n # Nil => n \in ({r} \cup Descendants(children, r))
    /\ LET path == IF n = Nil THEN p ELSE PathOf(parent, name, pathCache, n)
       IN /\ pathCache' = IF n = Nil THEN pathCache ELSE [pathCache EXCEPT ![n] = path]
          /\ last' = [NoCall EXCEPT !.op = "find_by_path", !.node = n, !.dst = r,
                                    !.ret = FindByPath(children, name, r, PathText(path)),
                                    !.pre = [par |-> parent, kids |-> children,
                                             path |-> path]]
    /\ UNCHANGED <<widget, parent, children, name,
                   visible, signals, nodeType, fields, frames,
                   manager, settings, stack, broken>>

\* children are appended: where a child stands among its siblings changes no path
NextFind ==
    \/ \E p, c \in Nodes : BuildAddChild(p, c, NoPos)
    \/ \E p, c \in Nodes : BuildRemoveChild(p, c)
    \/ \E c, q \in Nodes : last.op = "none" /\ QuietMove(c, q, NoPos)
    \/ \E n \in Nodes, v \in Names : last.op = "none" /\ Rename(n, v)
    \/ \E r, n \in Nodes : DoFindByPath(r, n, << >>)
    \/ \E r \in Nodes, p \in SeqsUpTo(Names, MaxParts) : DoFindByPath(r, Nil, p)
    \/ Ack

SpecFind == InitQuiet /\ [][NextFind]_vars

\* ------------------------------------------- scene_objects.SceneManager
\* The manager of scene_objects.py: SceneNode objects with a parent reference,
\* SceneObject (molecule) nodes with a children list, the manager's
\* root_objects list and its _uuid_map. manager holds the last two here.
SoTypeConfigs ==
    {[n \in Nodes |-> IF n = 1 THEN "molecule" ELSE "scalar_field"],
     [n \in Nodes |-> IF n <= 2 THEN "molecule" ELSE "scalar_field"]}

InitSceneObjects ==
    /\ parent = [n \in Nodes |-> Nil]
    /\ children = [n \in Nodes |-> << >>]
    /\ pathCache = [n \in Nodes |-> NoPath]
    /\ name = [n \in Nodes |-> IF n % 2 = 1 THEN "a" ELSE "b"]
    /\ visible = [n \in Nodes |-> TRUE]
    /\ signals = Quiet
    /\ nodeType \in SoTypeConfigs
    /\ settings = SceneSettings
    /\ fields = NoFields
    /\ frames = NoFrames
    /\ manager = [root_objects |-> << >>, uuid_map |-> {}]
    /\ widget = NoWidget
    /\ last = NoCall
    /\ stack = << >>
    /\ broken = 0

\* the objects of the scene as the manager and the nodes hold them
So == [par |-> parent, kids |-> children, roots |-> manager.root_objects,
       map |-> manager.uuid_map]

\* hasattr(obj, 'children')
HasChildren(n) == nodeType[n] = "molecule"

\* add_object(name, obj, parent): n is the object constructed, p the parent
\* id given (Nil when none)
AddObject(st, n, p) ==
    LET made == [st EXCEPT !.par[n] = Nil, !.kids[n] = << >>,
                           !.map = @ \cup {n}]
    IN IF p = Nil
       THEN [ret |-> "ok", msg |-> "",
             st |-> [made EXCEPT !.roots = Append(@, n)]]
       ELSE IF p \notin made.map
       THEN [ret |-> "raise", msg |-> "KeyError", st |-> made]
       ELSE IF HasChildren(p)
       THEN [ret |-> "ok", msg |-> "",
             st |-> [made EXCEPT !.kids[p] = Append(@, n), !.par[n] = p]]
       ELSE [ret |-> "raise", msg |-> "ValueError", st |-> made]

\* remove_object(uuid); the for loop over obj.children advances by index
\* while the calls it makes take children out of that list
RECURSIVE RemoveObject(_, _, _), RemoveObjectChildren(_, _, _, _)
RemoveObject(st, id, fuel) ==
    IF id \notin st.map THEN [ret |-> "raise", msg |-> "KeyError", st |-> st]
    ELSE IF fuel = 0 THEN [ret |-> "raise", msg |-> "RecursionError", st |-> st]
    ELSE LET k == IF HasChildren(id) THEN RemoveObjectChildren(st, id, 1, fuel - 1)
                  ELSE [ret |-> "ok", msg |-> "", st |-> st]
             p == k.st.par[id]
         IN IF k.ret # "ok" THEN k
            ELSE IF p # Nil /\ KeyIn(k.st.kids[p], id)
            THEN [ret |-> "ok", msg |-> "",
                  st |-> [k.st EXCEPT !.kids[p] = RemoveFrom(@, id), !.map = @ \ {id}]]
            ELSE IF p = Nil /\ KeyIn(k.st.roots, id)
            THEN [ret |-> "ok", msg |-> "",
                  st |-> [k.st EXCEPT !.roots = RemoveFrom(@, id), !.map = @ \ {id}]]
            ELSE [ret |-> "raise", msg |-> "ValueError", st |-> k.st]
RemoveObjectChildren(st, obj, i, fuel) ==
    IF i > Len(st.kids[obj]) THEN [ret |-> "ok", msg |-> "", st |-> st]
    ELSE LET r == RemoveObject(st, st.kids[obj][i], fuel)
         IN IF r.ret # "ok" THEN r ELSE RemoveObjectChildren(r.st, obj, i + 1, fuel)

\* one call on the manager
SoCall(op, node, dst, r) ==
    /\ last.op = "none"
    /\ parent' = r.st.par
    /\ children' = r.st.kids
    /\ manager' = [root_objects |-> r.st.roots, uuid_map |-> r.st.map]
    /\ last' = [NoCall EXCEPT !.op = op, !.node = node, !.dst = dst, !.ret = r.ret,
                              !.msg = r.msg, !.pre = So]
    /\ UNCHANGED <<widget, name, pathCache, visible, signals, nodeType, settings, fields,
                   frames, stack, broken>>

\* a new object gets a new uuid: n stands for it when nothing the manager can
\* reach holds n any more
DoAddObject(n, p) ==
    /\ n \notin manager.uuid_map
    /\ ~KeyIn(manager.root_objects, n)
    /\ \A k \in manager.uuid_map : parent[k] # n
    /\ p # n
    /\ SoCall("add_object", n, p, AddObject(So, n, p))

DoRemoveObject(id) ==
    SoCall("remove_object", id, Nil, RemoveObject(So, id, NumNodes + 1))

NextSceneObjects ==
    \/ \E n \in Nodes, p \in Ids \cup {Nil} : DoAddObject(n, p)
    \/ \E id \in Ids : DoRemoveObject(id)
    \/ Ack

SpecSceneObjects == InitSceneObjects /\ [][NextSceneObjects]_vars

\* ------------------------------------------------------- ObjectTreeWidget
\* The tree widget on the manager's root, connected to the signals object
\* every node holds. widget.refreshes counts the _refresh_tree calls since
\* the dropEvent in progress began; src, rel and place are the item dragged,
\* the item under the cursor and the drop indicator ("on" for None).
InitWidget ==
    /\ parent = [n \in Nodes |-> Nil]
    /\ children = [n \in Nodes |-> << >>]
    /\ pathCache = [n \in Nodes |-> NoPath]
    /\ name = [n \in Nodes |-> IF n % 2 = 1 THEN "a" ELSE "b"]
    /\ visible = [n \in Nodes |-> TRUE]
    /\ signals = Loud
    /\ nodeType = SceneTypes
    /\ settings = SceneSettings
    /\ fields = NoFields
    /\ frames = NoFrames
    /\ manager = NoManager
    /\ widget = [pc |-> "idle", updates_enabled |-> TRUE, refreshes |-> 0,
                 notified |-> FALSE, src |-> Nil, rel |-> Nil, place |-> "on",
                 target |-> Nil, pos |-> NoPos, success |-> FALSE]
    /\ last = NoCall
    /\ stack = << >>
    /\ broken = 0

\* _on_tree_structure_changed
OnTreeStructureChangedAlways(w) == [w EXCEPT !.refreshes = @ + 1]
OnTreeStructureChanged(w) ==
    IF ~w.updates_enabled THEN w ELSE [w EXCEPT !.refreshes = @ + 1]

\* the slot called once for each of n notifications
RECURSIVE HandleAll(_, _)
HandleAll(w, n) == IF n = 0 THEN w ELSE HandleAll(OnTreeStructureChanged(w), n - 1)

\* _get_absolute_item_position(item_to_move, relative_item, position)
GetAbsoluteItemPosition(t, moving, rel, place) ==
    LET y == IF rel = Nil THEN Nil ELSE GetObjectByUuid(t.kids, Root, rel)
        x == GetObjectByUuid(t.kids, Root, moving)
    IN IF y = Nil THEN [target |-> Root, pos |-> NoPos]
       ELSE IF x = Nil THEN [target |-> Nil, pos |-> NoPos]
       ELSE IF place = "on" THEN [target |-> y, pos |-> NoPos]
       ELSE LET p == IF t.par[y] # Nil THEN t.par[y] ELSE Root
                i == IndexOf(t.kids[p], y) + (IF place = "below" THEN 1 ELSE 0)
            IN [target |-> p,
                pos |-> IF t.par[x] = p /\ IndexOf(t.kids[p], x) < i THEN i - 1 ELSE i]

\* dropEvent up to disable_updates
DropBegin(src, rel, place) ==
    /\ widget.pc = "idle"
    /\ last.op = "none"
    /\ Forest
    /\ GetObjectByUuid(children, Root, src) # Nil
    /\ LET a == GetAbsoluteItemPosition(T, src, rel, place)
       IN widget' = [widget EXCEPT !.pc = "move", !.updates_enabled = FALSE,
                                   !.refreshes = 0, !.notified = FALSE,
                                   !.src = src, !.rel = rel, !.place = place,
                                   !.target = a.target, !.pos = a.pos,
                                   !.success = FALSE]
    /\ UNCHANGED <<parent, children, name, pathCache, visible, signals, nodeType,
                   settings, fields, frames, manager, last, stack, broken>>

\* the try block: self.root.move(source_node, target_node, position); the
\* slot runs for every notification the move emits
DropMove ==
    /\ widget.pc = "move"
    /\ LET r == IF widget.target = Nil
                THEN [ret |-> "none", msg |-> "", t |-> T, evs |-> << >>]
                ELSE Move(T, signals, Root, widget.src, widget.target, widget.pos, FALSE)
           n == Cardinality({i \in 1..Len(r.evs) :
                               r.evs[i].kind \in {"tree_structure_changed",
                                                  "visibility_changed"}})
       IN /\ Apply(r)
          /\ last' = Call("move", widget.src, widget.target, widget.pos, FALSE, r)
          /\ widget' = [HandleAll(widget, n) EXCEPT !.pc = "finally",
                                                    !.success = (r.ret = "ok")]
    /\ UNCHANGED <<name, visible, signals, nodeType, settings, fields, frames,
                   manager, stack, broken>>

\* a notification from elsewhere reaches the slot while the drop is in
\* progress (the event loop runs inside QMessageBox.warning)
DropNotify ==
    /\ widget.pc \in {"move", "finally"}
    /\ ~widget.notified
    /\ widget' = [OnTreeStructureChanged(widget) EXCEPT !.notified = TRUE]
    /\ UNCHANGED <<parent, children, name, pathCache, visible, signals, nodeType,
                   settings, fields, frames, manager, last, stack, broken>>

\* the finally block: enable_updates, then update_tree if the move succeeded
DropFinish ==
    /\ widget.pc = "finally"
    /\ widget' = [widget EXCEPT !.pc = "returned", !.updates_enabled = TRUE,
                                !.refreshes = IF widget.success THEN @ + 1 ELSE @]
    /\ UNCHANGED <<parent, children, name, pathCache, visible, signals, nodeType,
                   settings, fields, frames, manager, last, stack, broken>>

\* the event has been handled; the widget waits for the next one
DropDone ==
    /\ widget.pc = "returned"
    /\ widget' = [widget EXCEPT !.pc = "idle", !.refreshes = 0, !.notified = FALSE]
    /\ last' = NoCall
    /\ UNCHANGED <<parent, children, name, pathCache, visible, signals, nodeType,
                   settings, fields, frames, manager, stack, broken>>

NextWidget ==
    \/ \E p, c \in Nodes, pos \in Positions :
           widget.pc = "idle" /\ BuildAddChild(p, c, pos)
    \/ \E p, c \in Nodes : widget.pc = "idle" /\ BuildRemoveChild(p, c)
    \/ \E src \in Nodes, rel \in Nodes \cup {Nil}, place \in {"on", "above", "below"} :
           DropBegin(src, rel, place)
    \/ DropMove
    \/ DropNotify
    \/ DropFinish
    \/ DropDone

SpecWidget == InitWidget /\ [][NextWidget]_vars

\* ============================================================== properties
\* what the call in `last` was made on, and what it left
PreForest == IsForest(last.pre.par, last.pre.kids)
PreParent == last.pre.par[last.node]
PreIndex == IndexOf(last.pre.kids[last.dst], last.node)
TreeUnchanged == parent = last.pre.par /\ children = last.pre.kids
CountEvents(kind) ==
    Cardinality({i \in 1..Len(last.evs) : last.evs[i].kind = kind})
EventKinds == [i \in 1..Len(last.evs) |-> last.evs[i].kind]

\* ---- C1
CyclicMoveCall ==
    /\ last.op = "move"
    /\ PreForest
    /\ \/ last.dst = last.node
       \/ last.dst \in Descendants(last.pre.kids, last.node)

\* C1: a move whose new parent is the node itself or one of its descendants
\* returns failure and leaves every parent reference and every children
\* order as it was.
C1_CycleRejected ==
    CyclicMoveCall => (last.ret = "fail" /\ TreeUnchanged)

\* ---- C2
FailedMoveCall ==
    /\ last.op = "move"
    /\ PreForest
    /\ last.dst # last.node
    /\ last.dst \notin Descendants(last.pre.kids, last.node)
    /\ last.ret = "fail"

\* C2: a move (to a target that is neither the node nor below it) that returns
\* failure leaves the tree exactly as it was: the node is still a child of its
\* original parent at its original index.
C2_FailedMoveLeavesTree ==
    FailedMoveCall => TreeUnchanged

\* ---- C3
SingleOwner(par, kids) ==
    /\ \A n \in Nodes : Cardinality(Listers(kids, n)) <= 1
    /\ \A p, n \in Nodes : KeyIn(kids[p], n) <=> par[n] = p

\* C3: in the state a successful add_child, remove_child, move or
\* reorder_child leaves when called on a forest (add_child of a node that is a
\* child of another node included), each node is listed in the children of at
\* most one node, and n is listed in p's children exactly when n's parent
\* reference is p.
C3_SingleOwner ==
    (last.op # "none" /\ PreForest /\ last.ret = "ok") => SingleOwner(parent, children)

\* ---- C5
SameParentMoveCall ==
    /\ last.op = "move"
    /\ ~last.byId
    /\ PreForest
    /\ PreParent = last.dst
    /\ 0 <= last.pos /\ last.pos < Len(last.pre.kids[last.dst])
    /\ PreIndex # last.pos

\* C5: a same-parent move(n, p, position=k) with 0 <= k < len(p.children) and
\* k other than n's index puts n at index k of p's children (k = 0 included),
\* keeps the other children in their relative order, and emits exactly one
\* structure-changed event on p's signals.
C5_SameParentMovePlaces ==
    SameParentMoveCall =>
        /\ IndexOf(children[last.dst], last.node) = last.pos
        /\ RemoveFrom(children[last.dst], last.node)
               = RemoveFrom(last.pre.kids[last.dst], last.node)
        /\ signals[last.dst] => CountEvents("tree_structure_changed") = 1

\* ---- C6
NoOpReorderCall ==
    /\ last.op = "reorder_child"
    /\ PreForest
    /\ KeyIn(last.pre.kids[last.dst], last.node)
    /\ last.pos # NoPos
    /\ last.pos = PreIndex

\* C6: reorder_child(n, i) with i the current index of n returns success,
\* leaves the children order unchanged and emits no event.
C6_NoOpReorderSilent ==
    NoOpReorderCall => (last.ret = "ok" /\ TreeUnchanged /\ last.evs = << >>)

\* ---- C7
\* the subject node as the tree stands when the call has returned
FinalSnap ==
    [par |-> parent[last.node], lst |-> Listers(children, last.node),
     at |-> IndexOf(children[last.dst], last.node)]

ChangeComplete(s) ==
    /\ s = FinalSnap
    /\ last.op = "add_child" =>
           /\ s.par = last.dst /\ last.dst \in s.lst
           /\ s.at = IF last.pos = NoPos THEN Len(last.pre.kids[last.dst]) ELSE last.pos
    /\ last.op = "remove_child" =>
           s.par = Nil /\ last.dst \notin s.lst /\ s.at = -1
    /\ (last.op = "move" /\ PreParent # last.dst) =>
           /\ s.par = last.dst /\ last.dst \in s.lst
           /\ PreParent # Nil => PreParent \notin s.lst
    /\ (last.op = "reorder_child" \/ (last.op = "move" /\ PreParent = last.dst)) =>
           s.at # PreIndex /\ s.par = PreParent /\ s.lst = Listers(last.pre.kids, last.node)

\* C7: every event of add_child, remove_child, move and reorder_child is
\* emitted on a tree in which that call's structural change is already
\* complete: the child listed under the receiver with its parent reference
\* set (add), unlisted with its parent reference cleared (remove), listed
\* under the new parent and no longer under the old one (move); no subscriber
\* sees the moved node detached from both.
C7_EventsAfterChange ==
    \A i \in 1..Len(last.evs) : ChangeComplete(last.evs[i].snap)

C7_Witness ==
    /\ last.op = "move" /\ last.ret = "ok"
    /\ PreParent # Nil /\ PreParent # last.dst
    /\ Len(last.evs) = 2
    /\ parent[last.node] = last.dst

\* ---- C8
CrossParentMoveDone ==
    /\ last.op = "move" /\ last.ret = "ok"
    /\ PreParent # last.dst

AttachedToTarget(s) == s.par = last.dst /\ last.dst \in s.lst

PathConsistent ==
    \A n \in Nodes :
        (parent[n] # Nil /\ ParentChainEnds(parent, n)) =>
            PathOf(parent, name, pathCache, n)
                = PathChild(PathOf(parent, name, pathCache, parent[n]), name[n])

\* C4: in every well-formed state reached by add_child, remove_child, move,
\* reorder_child and name assignment, with paths read (and so cached) at any
\* time, every node n that has a parent satisfies
\* n.path == n.parent.path.child(n.name), nodes inside a subtree detached by
\* remove_child included.
C4_PathConsistent == Forest => PathConsistent

\* ---- C10
\* the subtree of r in pre-order, each node with the chain of nodes from r
\* down to it
RECURSIVE ChainsFrom(_, _, _), ChainsOfKids(_, _, _, _, _)
ChainsFrom(kids, chain, fuel) ==
    IF fuel = 0 THEN << >>
    ELSE <<chain>> \o ChainsOfKids(kids, chain, kids[chain[Len(chain)]], 1, fuel - 1)
ChainsOfKids(kids, chain, ks, i, fuel) ==
    IF i > Len(ks) THEN << >>
    ELSE ChainsFrom(kids, Append(chain, ks[i]), fuel)
             \o ChainsOfKids(kids, chain, ks, i + 1, fuel)

AllVisible(chain) == \A i \in 1..Len(chain) : visible[chain[i]]

VisibleInPreOrder(r) ==
    LET shown == SelectSeq(ChainsFrom(children, <<r>>, NumNodes + 1), AllVisible)
    IN [i \in 1..Len(shown) |-> shown[i][Len(shown[i])]]

\* C10: iter_visible() on r yields, in pre-order, exactly the nodes of r's
\* subtree that are visible together with every node on the way from r down
\* to them; an invisible node and everything below it is never yielded.
C10_IterVisiblePrunes ==
    \A r \in Nodes :
        ~CyclicBelow(children, r) =>
            IterVisible(children, visible, r) = VisibleInPreOrder(r)

C10_Witness ==
    \E r, x, d \in Nodes :
        /\ Forest
        /\ parent[x] = r /\ parent[d] = x
        /\ visible[r] /\ ~visible[x] /\ visible[d]
        /\ IterVisible(children, visible, r) = <<r>>

\* ---- C9
\* the outer operation has delivered all its events, one of its handlers
\* having called back into the tree
OuterDispatchDone ==
    /\ Len(stack) = 1
    /\ stack[1].nested
    /\ stack[1].todo = << >>

ListedPointBack == \A p, n \in Nodes : KeyIn(children[p], n) => parent[n] = p

\* C9: when an outer add_child, remove_child or move, called on a well-formed
\* tree, has delivered all its events and a subscriber called another
\* mutating operation while handling one of them, every listed child points
\* back to the node that lists it.
C9_ReentrantKeepsBackPointers == OuterDispatchDone => ListedPointBack

\* ---- C11
\* a scalar field that is a child of a molecule under the scene root is moved
\* to the root
FieldToRootMove ==
    /\ last.op = "move"
    /\ PreForest
    /\ last.dst = Root
    /\ nodeType[Root] = "root"
    /\ nodeType[last.node] = "scalar_field"
    /\ PreParent # Nil /\ nodeType[PreParent] = "molecule"
    /\ last.pre.par[PreParent] = Root

\* C11: moving a field node from its structure (a molecule under the scene
\* root) to the scene root fails with the acceptance hook's rejection and
\* leaves the tree unchanged.
C11_RootRejectsField ==
    FieldToRootMove => (last.ret = "fail" /\ TreeUnchanged)

\* ---- C12
HookRejects(p, c) == nodeType[p] = "folder" /\ nodeType[c] \notin FolderAccepts

AddRefusedCall ==
    /\ last.op = "add_child"
    /\ \/ HookRejects(last.dst, last.node)
       \/ last.pos # NoPos /\ ~(0 <= last.pos /\ last.pos <= Len(last.pre.kids[last.dst]))
       \/ KeyIn(last.pre.kids[last.dst], last.node)

\* C12: add_child returns failure, changes neither the receiver's children
\* nor the child's parent reference and emits no event when the receiver's
\* acceptance hook rejects the child, when the position is outside
\* 0..len(children), or when the child is already among the receiver's
\* children.
C12_AddChildRefusals ==
    AddRefusedCall => (last.ret = "fail" /\ TreeUnchanged /\ last.evs = << >>)

C12_Witness ==
    /\ last.op = "add_child"
    /\ HookRejects(last.dst, last.node)
    /\ last.pos = NoPos
    /\ ~KeyIn(last.pre.kids[last.dst], last.node)
    /\ signals[last.dst]
    /\ last.ret = "fail"

\* ---- C13
AddDoneCall == last.op = "add_child" /\ last.ret = "ok"

\* C13: a successful add_child(child, position) puts child at index position
\* of the receiver's children (at the end when position is omitted), keeps
\* the children that were there in their relative order, and sets child's
\* parent reference to the receiver.
C13_AddChildPlaces ==
    AddDoneCall =>
        /\ IndexOf(children[last.dst], last.node)
               = (IF last.pos = NoPos THEN Len(last.pre.kids[last.dst]) ELSE last.pos)
        /\ RemoveFrom(children[last.dst], last.node) = last.pre.kids[last.dst]
        /\ parent[last.node] = last.dst

C13_Witness ==
    /\ AddDoneCall
    /\ PreForest
    /\ last.pos = 0
    /\ Len(last.pre.kids[last.dst]) >= 1
    /\ children[last.dst][1] = last.node

\* ---- C14
AddOrRemoveDone ==
    /\ last.op \in {"add_child", "remove_child"}
    /\ last.ret = "ok"

NodeEventOf(op) == IF op = "add_child" THEN "node_added" ELSE "node_removed"

NodeThenStructure ==
    /\ EventKinds = <<NodeEventOf(last.op), "tree_structure_changed">>
    /\ last.evs[1].arg = last.node

RemoveCall == last.op = "remove_child"

\* C15: remove_child(x) looks only among the receiver's direct children: a
\* direct child is unlinked (the other children keep their order), its
\* parent reference becomes null and it is returned; anything else, a deeper
\* descendant included, returns nothing, changes nothing and emits nothing.
C15_RemoveDirectOnly ==
    RemoveCall =>
        IF KeyIn(last.pre.kids[last.dst], last.node)
        THEN /\ last.ret = "ok"
             /\ children[last.dst] = RemoveFrom(last.pre.kids[last.dst], last.node)
             /\ parent[last.node] = Nil
        ELSE /\ last.ret = "none"
             /\ TreeUnchanged
             /\ last.evs = << >>

C15_Witness ==
    /\ RemoveCall
    /\ PreForest
    /\ last.node \in Descendants(last.pre.kids, last.dst)
    /\ ~KeyIn(last.pre.kids[last.dst], last.node)
    /\ signals[last.dst]
    /\ last.ret = "none"

\* ---- C16
ReorderRefusedCall ==
    /\ last.op = "reorder_child"
    /\ \/ ~KeyIn(last.pre.kids[last.dst], last.node)
       \/ last.pos # NoPos
              /\ ~(0 <= last.pos /\ last.pos < Len(last.pre.kids[last.dst]))

\* C16: reorder_child(n, p) returns failure, leaves the children order
\* unchanged and emits nothing when n is not a direct child of the receiver
\* or when p is outside 0..len(children)-1.
C16_ReorderRefusals ==
    ReorderRefusedCall => (last.ret = "fail" /\ TreeUnchanged /\ last.evs = << >>)

C16_Witness ==
    /\ last.op = "reorder_child"
    /\ PreForest
    /\ KeyIn(last.pre.kids[last.dst], last.node)
    /\ Len(last.pre.kids[last.dst]) >= 2
    /\ last.pos = Len(last.pre.kids[last.dst])
    /\ signals[last.dst]
    /\ last.msg = "Invalid position"

\* ---- C17
RoundTripCall == last.op = "remove_add" /\ PreForest

SetVisibilityCall == last.op = "set_visibility"

\* the id given is not the receiver's nor that of a node below it
IdNotFound ==
    /\ last.byId
    /\ last.node \notin ({last.dst} \cup Descendants(last.pre.kids, last.dst))

\* C18: set_visibility(target, v) returns false, changes no visible flag and
\* emits no event when the target's flag already equals v or when the id
\* given is not found in the receiver's subtree.
C18_SetVisibilityNoChange ==
    (SetVisibilityCall /\ (IdNotFound \/ last.pre.vis[last.node] = last.pre.val)) =>
        /\ last.ret = "fail"
        /\ visible = last.pre.vis
        /\ last.evs = << >>

C18_Witness ==
    /\ SetVisibilityCall
    /\ IdNotFound
    /\ last.pre.vis[last.node] # last.pre.val
    /\ signals[last.dst] /\ signals[last.node]
    /\ last.ret = "fail"

\* ---- C19
\* update_settings(id, s) on the manager, the id being that of a node of the
\* tree that carries render settings
UpdateSettingsCall ==
    /\ last.op = "update_settings"
    /\ last.node \in Descendants(last.pre.kids, Root)
    /\ last.pre.st[last.node] # NoSettings

SettingsReplaced(events) ==
    IF last.pre.val.val # last.pre.st[last.node].val
    THEN /\ settings[last.node] = last.pre.val
         /\ last.evs = events
    ELSE /\ settings = last.pre.st
         /\ last.evs = << >>

OneRenderChanged == << [kind |-> "render_changed", arg |-> last.node] >>

FieldChildren(m) == SelectSeq(children[m], LAMBDA c : nodeType[c] = "scalar_field")

Lockstep(m) ==
    fields[m] = [i \in 1..Len(FieldChildren(m)) |-> FieldEntry(FieldChildren(m)[i])]

\* C20: for a molecule node, after any sequence of add_child, remove_child,
\* move and reorder_child, the names of its field children are exactly the
\* keys of the molecule's field map, each key maps to the payload of the
\* child with that name, and the children order equals the map order.
C20_DomainLockstep ==
    \A m \in Nodes : nodeType[m] = "molecule" => Lockstep(m)

C20_Witness ==
    \E m, x, y \in Nodes :
        /\ nodeType[m] = "molecule"
        /\ x < y
        /\ children[m] = <<y, x>>
        /\ fields[m] = <<FieldEntry(y), FieldEntry(x)>>
        /\ last.op = "reorder_child" /\ last.ret = "ok"

\* ---- C21
\* the frame list of trajectory t has one element per child, element i being
\* the payload of child i (the payload of node c is c)
FrameLockstep(t) ==
    /\ Len(frames[t]) = Len(children[t])
    /\ \A i \in 1..Len(children[t]) : frames[t][i] = children[t][i]

\* C21: for a trajectory node, after any sequence of add_child (with or
\* without position), remove_child, move and reorder_child, the backing frame
\* list has the same length as the children and its element i is the payload
\* of child i.
C21_TrajectoryLockstep ==
    \A t \in Nodes : nodeType[t] = "trajectory" => FrameLockstep(t)

C21_Witness ==
    \E t, x, y \in Nodes :
        /\ nodeType[t] = "trajectory"
        /\ x < y
        /\ last.op = "add_child" /\ last.ret = "ok"
        /\ last.dst = t /\ last.node = y /\ last.pos = 0
        /\ children[t] = <<y, x>>
        /\ frames[t] = <<y, x>>

\* ---- C22
\* add_child on a field node, or a move whose target is a field node
FieldTargetCall ==
    /\ last.op \in {"add_child", "move"}
    /\ nodeType[last.dst] = "scalar_field"

\* the message carries the hook's 'cannot have children'
CannotHaveChildrenReason(msg) ==
    msg \in {"Scalar fields cannot have children",
             "Cannot move to target: Scalar fields cannot have children"}

DomainUnchanged ==
    /\ TreeUnchanged
    /\ fields = last.pre.f
    /\ frames = last.pre.fr

DomainAddCall ==
    /\ last.op = "add_child"
    /\ nodeType[last.dst] \in {"molecule", "trajectory"}

PreChildNames(p) == {name[last.pre.kids[p][i]] : i \in 1..Len(last.pre.kids[p])}

\* what the claim lets the receiver accept
KindAndNameAccepted(p, c) ==
    IF nodeType[p] = "molecule"
    THEN nodeType[c] = "scalar_field" /\ name[c] \notin PreChildNames(p)
    ELSE nodeType[c] = "molecule"

\* C23: a molecule accepts as child only a scalar field whose name is not
\* already used by one of its children, and a trajectory accepts only
\* molecules; a rejected add_child leaves the children and the backing
\* collection (field map, frame list) unchanged.
C23_DomainAcceptance ==
    DomainAddCall =>
        /\ ~KindAndNameAccepted(last.dst, last.node) => last.ret = "fail"
        /\ last.ret = "fail" => (DomainUnchanged /\ last.evs = << >>)

C23_Witness ==
    /\ DomainAddCall
    /\ nodeType[last.dst] = "molecule"
    /\ nodeType[last.node] = "scalar_field"
    /\ ~KeyIn(last.pre.kids[last.dst], last.node)
    /\ name[last.node] \in PreChildNames(last.dst)
    /\ last.pos = 0
    /\ last.ret = "fail"
    /\ Len(fields[last.dst]) = 1

\* ---- C24
SceneNodes == {Root} \cup Descendants(children, Root)

\* C24: in every state reached through SceneManager calls (load_*, add_*,
\* create_trajectory, move_object, delete_object, assignment of
\* tree_signals), every node reachable from the root holds the manager's
\* current signals object.
C24_TreeSharesSignals ==
    \A n \in SceneNodes : signals[n] = manager.signals

\* ---- C25
\* x = TreeNode(name, parent=p) with p a node
ConstructedWithParent == last.op = "construct" /\ last.dst # Nil

NodePathIs(n) == PathOf(parent, name, pathCache, n)

\* C25: a node constructed with a parent argument is attached at
\* construction: immediately afterwards it is listed in that parent's
\* children and its path is the parent's path with its own name appended.
C25_ConstructedAttached ==
    ConstructedWithParent =>
        /\ KeyIn(children[last.dst], last.node)
        /\ NodePathIs(last.node) = PathChild(NodePathIs(last.dst), name[last.node])

\* ---- C26
\* node.parent = q on a well-formed tree, q a node that is neither the node
\* nor below it
ParentAssigned ==
    /\ last.op = "set_parent"
    /\ last.dst # Nil
    /\ PreForest
    /\ last.dst \notin ({last.node} \cup Descendants(last.pre.kids, last.node))

StartsWith(path, prefix) ==
    /\ Len(prefix) <= Len(path)
    /\ SubSeq(path, 1, Len(prefix)) = prefix

\* C26: assigning node.parent = q removes node from the children of its
\* previous parent (if any), adds it to q's children and sets its parent
\* reference to q; afterwards the paths of node and of all its descendants
\* start with q's path.
C26_ParentAssignmentMoves ==
    ParentAssigned =>
        /\ (PreParent # Nil /\ PreParent # last.dst) =>
               ~KeyIn(children[PreParent], last.node)
        /\ KeyIn(children[last.dst], last.node)
        /\ parent[last.node] = last.dst
        /\ \A d \in {last.node} \cup Descendants(children, last.node) :
               StartsWith(NodePathIs(d), NodePathIs(last.dst))

\* ---- C27
\* delete_object(id), the id being that of a node below the manager's root
DeleteObjectCall ==
    /\ last.op = "delete_object"
    /\ last.node \in Descendants(last.pre.kids, Root)

\* C27: SceneManager.delete_object(id) removes the identified node wherever
\* it is in the tree, not only directly under the root: afterwards
\* get_object_by_uuid(id) finds nothing and the node's former parent no
\* longer lists it.
C27_DeleteObjectAnywhere ==
    DeleteObjectCall =>
        /\ ManagerGet(children, last.node) = Nil
        /\ ~KeyIn(children[PreParent], last.node)

\* ---- C28
\* the segments are non-empty and hold no '/'
PlainSegments(parts) ==
    \A i \in 1..Len(parts) :
        /\ parts[i] # << >>
        /\ \A j \in 1..Len(parts[i]) : parts[i][j] # Separator

ParsedBack == last.op = "from_string" /\ PlainSegments(last.pre.parts)

\* C28: for every NodePath p whose segments are non-empty and contain no
\* '/', including the empty (root) path, NodePath.from_string(str(p)) equals
\* p; a trailing '/' on the string does not change the parsed path.
C28_NodePathRoundTrip ==
    ParsedBack =>
        /\ ~last.pre.slash => last.ret = last.pre.parts
        /\ last.pre.slash =>
               last.ret = NodePathFromString(NodePathStr(last.pre.parts))

\* ---- C29
\* the node looked for is the receiver or a node below it
InSubtree == last.node \in ({last.dst} \cup Descendants(last.pre.kids, last.dst))

\* C29: r.get_object_by_uuid(id) returns the node with that id when that
\* node is r or a descendant of r and returns nothing otherwise; the
\* membership test x in r (x given as a node or as an id) is true under
\* exactly the same condition.
C29_LookupAndMembership ==
    /\ last.op = "get_object_by_uuid" =>
           last.ret = (IF InSubtree THEN last.node ELSE Nil)
    /\ last.op = "contains" =>
           last.ret = (IF InSubtree THEN "true" ELSE "false")

\* a node two levels below the receiver, given as a node, is a member
C29_Witness ==
    /\ last.op = "contains"
    /\ ~last.byId
    /\ last.node \in Nodes
    /\ last.pre.par[last.node] \notin {Nil, last.dst}
    /\ last.pre.par[last.pre.par[last.node]] = last.dst
    /\ last.ret = "true"

\* ---- C30
\* set_visibility(target, v) on a receiver that holds the signals object,
\* the target found and its flag different from v
VisibilityChangingCall ==
    /\ SetVisibilityCall
    /\ ~IdNotFound
    /\ last.pre.vis[last.node] # last.pre.val
    /\ signals[last.dst]

VisibilityChangedCount ==
    Cardinality({i \in 1..Len(last.evs) : last.evs[i] = "visibility_changed"})

\* C30: a set_visibility(target, v) call that changes the flag sets
\* target.visible to v, returns true, and delivers exactly one
\* visibility-changed event (target id, v) to each subscriber.
C30_VisibilityChangedOnce ==
    VisibilityChangingCall =>
        /\ visible[last.node] = last.pre.val
        /\ last.ret = "ok"
        /\ VisibilityChangedCount = 1

\* ---- C31
\* C31: set_visibility on node x changes only x's visible flag: the visible
\* flags of x's ancestors and descendants, every parent reference and every
\* children order are left unchanged.
C31_SetVisibilityFrame ==
    [][last'.op = "set_visibility" =>
           /\ \A m \in Nodes \ {last'.node} : visible'[m] = visible[m]
           /\ parent' = parent
           /\ children' = children]_vars

\* the flag of a node that has a parent and a child was changed, and now
\* differs from both of theirs
C31_Witness ==
    /\ SetVisibilityCall
    /\ last.ret = "ok"
    /\ parent[last.node] # Nil
    /\ children[last.node] # << >>
    /\ visible[parent[last.node]] # visible[last.node]
    /\ visible[children[last.node][1]] # visible[last.node]

\* ---- C32
\* names are distinct among the children of each node
DistinctSiblingNames ==
    \A q \in Nodes : \A i, j \in 1..Len(children[q]) :
        i # j => name[children[q][i]] # name[children[q][j]]

\* the nodes below the receiver (itself included) that the path names
NamedBy(path) ==
    {m \in {last.dst} \cup Descendants(children, last.dst) :
        ComputePath(parent, name, m) = path}

FindByPathCall == last.op = "find_by_path" /\ DistinctSiblingNames

\* C32: for every node n of the tree under root r, when names are distinct
\* among the children of each node and contain no '/',
\* r.find_by_path(str(n.path)) returns n after any sequence of add_child,
\* remove_child, move and rename; a path that names no node returns nothing.
C32_FindByPathRoundTrip ==
    FindByPathCall =>
        /\ last.node # Nil => last.ret = last.node
        /\ (last.node = Nil /\ NamedBy(last.pre.path) = {}) => last.ret = Nil

\* ---- C33
\* C33: in every state reachable by add_child, remove_child, move,
\* reorder_child and parent assignment, following parent references from any
\* node reaches a parentless node in finitely many steps, so reading
\* node.path and running iter_tree always terminate.
C33_ParentChainsEnd == \A n \in Nodes : ParentChainEnds(parent, n)

\* ---- C34
\* the step of a move that succeeds on a well-formed tree and takes the node
\* from its parent to another one
MovedAcross ==
    /\ last'.op = "move"
    /\ last'.ret = "ok"
    /\ Forest
    /\ parent[last'.node] # Nil
    /\ parent[last'.node] # last'.dst

\* C34: a successful move of n from parent p to a different parent q changes
\* only n's parent reference, p's children (n removed, the others in the same
\* order) and q's children (n inserted at the requested position, the others
\* in the same order); n's own descendants, their order and every other node
\* are unchanged.
C34_MoveFrame ==
    [][MovedAcross =>
           LET n == last'.node
               p == parent[n]
               q == last'.dst
           IN /\ parent' = [parent EXCEPT ![n] = q]
              /\ children' =
                     [children EXCEPT
                         ![p] = RemoveFrom(@, n),
                         ![q] = InsertAt(@, IF last'.pos = NoPos THEN Len(@)
                                            ELSE last'.pos, n)]
              /\ UNCHANGED <<widget, name, visible, nodeType, settings>>]_vars

\* a node was moved away from a sibling, to the front of the children of
\* another parent
C34_Witness ==
    /\ last.op = "move"
    /\ last.ret = "ok"
    /\ PreForest
    /\ PreParent \notin {Nil, last.dst}
    /\ last.pos = 0
    /\ Len(last.pre.kids[PreParent]) >= 2
    /\ children[last.dst][1] = last.node

\* ---- C35
\* the objects reachable from root_objects
SceneReachable(roots, kids) ==
    {roots[i] : i \in 1..Len(roots)}
        \cup UNION {Descendants(kids, roots[i]) : i \in 1..Len(roots)}

\* remove_object(id) of an object of the scene, on a scene whose index holds
\* exactly the objects reachable from root_objects
RemoveObjectCall ==
    /\ last.op = "remove_object"
    /\ last.pre.map = SceneReachable(last.pre.roots, last.pre.kids)
    /\ last.node \in last.pre.map

\* C35: scene_objects.SceneManager.remove_object(id) removes the object and
\* every one of its descendants, for any number of children: afterwards none
\* of them is in the UUID index returned by objects and none is reachable
\* from root_objects.
C35_RemoveObjectSubtree ==
    RemoveObjectCall =>
        \A m \in {last.node} \cup Descendants(last.pre.kids, last.node) :
            /\ m \notin manager.uuid_map
            /\ m \notin SceneReachable(manager.root_objects, children)

\* ---- C36
\* C36: in scene_objects.SceneManager, the set of objects in the UUID index
\* equals the set of objects reachable from root_objects after any sequence
\* of add_object and remove_object calls, including add_object calls that
\* raise because the parent id is unknown or the parent cannot hold children.
C36_IndexIsReachable ==
    manager.uuid_map = SceneReachable(manager.root_objects, children)

\* ---- C37
\* C37: in ObjectTreeWidget, a structure-change notification received
\* between disable_updates and enable_updates never rebuilds the view; when
\* a dropEvent that reached the move step returns, updates are enabled again
\* whether the move succeeded, failed or raised, and the view has been
\* rebuilt exactly once if the move succeeded.
C37_DropUpdatesSuppressed ==
    /\ widget.pc \in {"move", "finally"} =>
           /\ ~widget.updates_enabled
           /\ widget.refreshes = 0
    /\ widget.pc = "returned" =>
           /\ widget.updates_enabled
           /\ widget.success => widget.refreshes = 1

\* a move that succeeded and emitted a notification of its own, another
\* notification having arrived during the drop
C37_Witness ==
    /\ widget.pc = "returned"
    /\ widget.success
    /\ widget.notified
    /\ CountEvents("tree_structure_changed") >= 1
    /\ widget.refreshes = 1

\* ---- C38
\* a drop above or below Y, the parent of Y being neither the node dragged
\* nor below it, on a well-formed tree
SiblingDrop ==
    /\ widget.pc \in {"finally", "returned"}
    /\ widget.place \in {"above", "below"}
    /\ PreForest
    /\ widget.rel \in Descendants(last.pre.kids, Root) \ {widget.src}
    /\ last.pre.par[widget.rel]
           \notin ({widget.src} \cup Descendants(last.pre.kids, widget.src))

\* C38: when the tree widget turns a drop into a move with
\* _get_absolute_item_position and TreeNode.move, a node dropped 'above'
\* sibling Y ends immediately before Y, and a node dropped 'below' Y ends
\* immediately after Y, in the target parent's children, whether the node
\* comes from the same parent or from another one and also when Y is the
\* first child.
C38_DropLandsNextToSibling ==
    SiblingDrop =>
        LET ks == children[last.pre.par[widget.rel]]
            x == IndexOf(ks, widget.src)
            y == IndexOf(ks, widget.rel)
        IN /\ x >= 0
           /\ y >= 0
           /\ widget.place = "above" => x + 1 = y
           /\ widget.place = "below" => x = y + 1

\* the same round trip on a molecule and one of its fields, in SpecDomain:
\* the children and the field map are as before
DomainRoundTripRestores ==
    (RoundTripCall /\ nodeType[last.dst] = "molecule") =>
        /\ last.ret = "ok"
        /\ TreeUnchanged
        /\ Lockstep(last.dst)

====
